---- MODULE Spec2Model ----
(***************************************************************************)
(* A model of the gbemu core: the memory bus (MemorySystem), the CPU       *)
(* (decode table, interrupt dispatcher, step), the timer, the PPU mode     *)
(* machine and the machine scheduler.  Every array of the program is       *)
(* zero-initialised; an array is held here as the function of its nonzero  *)
(* cells, so that Get and Put are exactly the indexing read and write.     *)
(***************************************************************************)
EXTENDS Integers, Sequences, FiniteSets, TLC

VARIABLES
    cpu,     \* Cpu
    bus,     \* MemorySystem
    timer,   \* Timer
    ppu,     \* Ppu
    machine, \* the other fields of Machine: the joypad, the breakpoints, and the locals
             \* of a step_frame call that is under way
    build,   \* whether the build checks integer overflow ("debug") or not ("release");
             \* "any" until an overflow has shown which
    ret,     \* what the last call returned
    last,    \* the last call: its name, its inputs and the state it started from
    ghost    \* history: counters of calls and cycles

vars == <<cpu, bus, timer, ppu, machine, build, ret, last, ghost>>

(***************************************************************************)
(* Bytes, words and the bit operations of u8 / u16.                        *)
(***************************************************************************)
RECURSIVE BitAnd(_, _)
BitAnd(a, b) ==
    IF a = 0 \/ b = 0 THEN 0
    ELSE (a % 2) * (b % 2) + 2 * BitAnd(a \div 2, b \div 2)

BitOr(a, b) == a + b - BitAnd(a, b)

BitXor(a, b) == a + b - 2 * BitAnd(a, b)

BitNot8(a) == 255 - a

Bit(v, n) == (v \div (2 ^ n)) % 2

Low8(w) == w % 256

High8(w) == (w \div 256) % 256

Wrap8(v) == v % 256

Wrap16(v) == v % 65536

\* `x as i8`: the signed reading of a byte
AsI8(v) == IF v >= 128 THEN v - 256 ELSE v

(***************************************************************************)
(* Arrays: [u8; N] filled with 0 at construction.                          *)
(***************************************************************************)
EmptyArr == [i \in {} |-> 0]

Get(arr, i) == IF i \in DOMAIN arr THEN arr[i] ELSE 0

Put(arr, i, v) ==
    IF v = 0 THEN EmptyArr @@ [j \in (DOMAIN arr) \ {i} |-> arr[j]]
    ELSE (i :> v) @@ arr

(***************************************************************************)
(* bus.rs: interrupt bits, register addresses, MemorySystem.               *)
(***************************************************************************)
VBLANK == \h01
LCD_STAT == \h02
TIMER == \h04
SERIAL == \h08
JOYPAD == \h10
InterruptAll == \h1F

IF_ADDR == \hFF0F
IE_ADDR == \hFFFF
DIV_ADDR == \hFF04
DMA_ADDR == \hFF46

\* A cartridge: `rom` holds the cells of the image that differ from `fill`
\* (0xFF in Cartridge::empty(), the zero padding of load_from_path otherwise);
\* `oob` is the byte an out-of-bounds get_unchecked happens to read.
\* Cartridge::empty(): a ROM-only cartridge of 0x4000 bytes of 0xFF
EmptyCartridge ==
    [mapper |-> "RomOnly", rom |-> [i \in {} |-> 0], fill |-> \hFF, rom_len |-> \h4000,
     oob |-> \hFF]

\* Cartridge::load_from_path for a ROM-only image of 32 KiB (header type 0x00,
\* ROM size 0x00, RAM size 0x00): the file's bytes over a zeroed vector
LoadedCartridge(image) ==
    [mapper |-> "RomOnly", rom |-> image, fill |-> 0, rom_len |-> \h8000, oob |-> \hFF]

\* MemorySystem::default()
MemorySystemDefault ==
    [boot_rom  |-> EmptyArr,
     boot_rom_enabled |-> FALSE,
     boot_rom_loaded  |-> FALSE,
     vram      |-> EmptyArr,
     wram0     |-> EmptyArr,
     wram1     |-> EmptyArr,
     oam       |-> EmptyArr,
     io_regs   |-> EmptyArr,
     hram      |-> EmptyArr,
     interrupts |-> 0,
     cartridge |-> EmptyCartridge]

\* cartridge/mod.rs: ROM_BANK_SIZE, RAM_BANK_SIZE; cartridge/headers.rs: the header cells
ROM_BANK_SIZE == \h4000
RAM_BANK_SIZE == \h2000
HEADER_TYPE == \h0147
HEADER_ROM_SIZE == \h0148
HEADER_RAM_SIZE == \h0149

\* Cartridge::load_from_path: the number of ROM banks for the header's ROM size code
rom_banks_of(code) == 2 ^ (code + 1)

\* Cartridge::load_from_path: the number of RAM banks for the header's RAM size code
ram_banks_of(code) ==
    CASE code = \h00 -> 0
      [] code = \h02 -> 1
      [] code = \h03 -> 4
      [] code = \h05 -> 8
      [] code = \h04 -> 16

\* Mbc1::new(rom_bank_count, ram_bank_count)
Mbc1New(rom_bank_count, ram_bank_count) ==
    [rom_bank |-> 1, mode_ram_banking |-> FALSE, ram_enabled |-> FALSE, ram_bank |-> 0,
     rom_bank_count |-> rom_bank_count, ram_bank_count |-> ram_bank_count]

\* Cartridge::load_from_path for an image whose header names an MBC1 (type 0x01..0x03):
\* the file's bytes over a zeroed vector of the header's ROM size, a zeroed RAM of the
\* header's RAM size, and a new mapper
LoadedMbc1Cartridge(image) ==
    [mapper |-> "Mbc1", rom |-> image, fill |-> 0,
     rom_len |-> rom_banks_of(image[HEADER_ROM_SIZE]) * ROM_BANK_SIZE, oob |-> \hFF,
     has_ram |-> ram_banks_of(image[HEADER_RAM_SIZE]) > 0,
     ram |-> EmptyArr,
     mbc1 |-> Mbc1New(rom_banks_of(image[HEADER_ROM_SIZE]),
                      ram_banks_of(image[HEADER_RAM_SIZE]))]

\* rom.get_unchecked(idx)
rom_get_unchecked(c, idx) ==
    IF idx >= c.rom_len THEN c.oob
    ELSE IF idx \in DOMAIN c.rom THEN c.rom[idx]
    ELSE c.fill

\* Mbc1::current_rom_bank_0000
current_rom_bank_0000(m) ==
    IF m.mode_ram_banking THEN BitAnd(m.rom_bank, \h60) ELSE 0

\* a bank selection for the 0x4000 window that does not map low5 = 0 to 1
current_rom_bank_4000_unmapped(m) == BitAnd(m.rom_bank, \h7F) % m.rom_bank_count

\* Mbc1::current_rom_bank_4000: low5 = 0 maps to 1, modulo the bank count
current_rom_bank_4000(m) ==
    LET low5 == BitAnd(m.rom_bank, \h1F)
        low5_nonzero == BitOr(low5, IF low5 = 0 THEN 1 ELSE 0)
    IN  BitOr(BitAnd(m.rom_bank, \h60), low5_nonzero) % m.rom_bank_count

\* Mbc1::read_handler_rom_0000: the index read
rom_0000_index(m, address) ==
    (current_rom_bank_0000(m) % m.rom_bank_count) * ROM_BANK_SIZE + address

\* Mbc1::read_handler_rom_4000: the index read
rom_4000_index(m, address) ==
    (current_rom_bank_4000(m) % m.rom_bank_count) * ROM_BANK_SIZE + (address - ROM_BANK_SIZE)

\* the RAM bank of Mbc1::read_handler_ram and Mbc1::write_handler_ram
mbc1_ram_bank(m) ==
    IF m.mode_ram_banking THEN m.ram_bank % m.ram_bank_count ELSE 0

\* Mbc1::read_handler_ram
read_handler_ram(c, address) ==
    IF ~c.has_ram THEN \hFF
    ELSE IF ~c.mbc1.ram_enabled \/ c.mbc1.ram_bank_count = 0 THEN \hFF
    ELSE Get(c.ram, mbc1_ram_bank(c.mbc1) * RAM_BANK_SIZE
                      + BitAnd(address - \hA000, RAM_BANK_SIZE - 1))

\* Mbc1::read through READ_HANDLERS[address >> 12]
mbc1_read(c, address) ==
    IF address <= \h7FFF
    THEN rom_get_unchecked(c, IF address <= \h3FFF THEN rom_0000_index(c.mbc1, address)
                              ELSE rom_4000_index(c.mbc1, address))
    ELSE IF address >= \hA000 /\ address <= \hBFFF THEN read_handler_ram(c, address)
    ELSE \hFF

\* Mbc1::write_handler_set_ram_state
write_handler_set_ram_state(m, byte) ==
    [m EXCEPT !.ram_enabled = (BitAnd(byte, \h0F) = \h0A)]

\* a store of the low five bits that clears the two bits above them
write_handler_set_rom_bank_clearing(m, byte) ==
    [m EXCEPT !.rom_bank = BitAnd(byte, \h1F)]

\* Mbc1::write_handler_set_rom_bank
write_handler_set_rom_bank(m, byte) ==
    [m EXCEPT !.rom_bank = BitOr(BitAnd(@, \hE0), BitAnd(byte, \h1F))]

\* Mbc1::write_handler_set_ram_bank
write_handler_set_ram_bank(m, byte) ==
    LET bits == BitAnd(byte, \h03)
    IN  [m EXCEPT !.rom_bank = BitOr(BitAnd(@, \h1F), bits * 32),
                  !.ram_bank = IF m.mode_ram_banking THEN bits ELSE @]

\* Mbc1::write_handler_set_bank_mode
write_handler_set_bank_mode(m, byte) ==
    [m EXCEPT !.mode_ram_banking = (BitAnd(byte, \h01) # 0)]

\* a RAM store that does not test ram_enabled
write_handler_ram_ungated(c, address, byte) ==
    IF ~c.has_ram \/ c.mbc1.ram_bank_count = 0 THEN c
    ELSE [c EXCEPT !.ram = Put(@, mbc1_ram_bank(c.mbc1) * RAM_BANK_SIZE
                                  + BitAnd(address, \h1FFF), byte)]

\* Mbc1::write_handler_ram
write_handler_ram(c, address, byte) ==
    IF ~c.has_ram \/ c.mbc1.ram_bank_count = 0 \/ ~c.mbc1.ram_enabled THEN c
    ELSE [c EXCEPT !.ram = Put(@, mbc1_ram_bank(c.mbc1) * RAM_BANK_SIZE
                                  + BitAnd(address, \h1FFF), byte)]

\* Mbc1::write through WRITE_HANDLERS[address >> 12]
mbc1_write(c, address, byte) ==
    IF address <= \h1FFF THEN [c EXCEPT !.mbc1 = write_handler_set_ram_state(@, byte)]
    ELSE IF address <= \h3FFF THEN [c EXCEPT !.mbc1 = write_handler_set_rom_bank(@, byte)]
    ELSE IF address <= \h5FFF THEN [c EXCEPT !.mbc1 = write_handler_set_ram_bank(@, byte)]
    ELSE IF address <= \h7FFF THEN [c EXCEPT !.mbc1 = write_handler_set_bank_mode(@, byte)]
    ELSE IF address >= \hA000 /\ address <= \hBFFF THEN write_handler_ram(c, address, byte)
    ELSE c

\* RomOnly::read
rom_only_read(c, address) ==
    IF address <= \h7FFF THEN rom_get_unchecked(c, address) ELSE \hFF

\* Mapper::read
mapper_read(c, address) ==
    IF c.mapper = "Mbc1" THEN mbc1_read(c, address) ELSE rom_only_read(c, address)

\* Mapper::write; RomOnly::write ignores the write
mapper_write(c, address, byte) ==
    IF c.mapper = "Mbc1" THEN mbc1_write(c, address, byte) ELSE c

\* Cartridge::read_byte
cartridge_read_byte(b, address) == mapper_read(b.cartridge, address)

\* Cartridge::write_byte
cartridge_write_byte(b, address, byte) ==
    [b EXCEPT !.cartridge = mapper_write(@, address, byte)]

\* MemorySystem::read_byte
read_byte(b, address) ==
    IF b.boot_rom_enabled /\ address < \h100 THEN Get(b.boot_rom, address)
    ELSE IF address <= \h7FFF \/ (address >= \hA000 /\ address <= \hBFFF)
    THEN cartridge_read_byte(b, address)
    ELSE IF address <= \h9FFF THEN Get(b.vram, address - \h8000)
    ELSE IF address <= \hCFFF THEN Get(b.wram0, address - \hC000)
    ELSE IF address <= \hDFFF THEN Get(b.wram1, address - \hD000)
    ELSE IF address <= \hEFFF THEN Get(b.wram0, address - \hE000)
    ELSE IF address <= \hFDFF THEN Get(b.wram1, address - \hF000)
    ELSE IF address <= \hFE9F THEN Get(b.oam, address - \hFE00)
    ELSE IF address <= \hFEFF THEN \hFF
    ELSE IF address <= \hFF7F THEN Get(b.io_regs, address - \hFF00)
    ELSE IF address <= \hFFFE THEN Get(b.hram, address - \hFF80)
    ELSE b.interrupts

\* MemorySystem::write_internal_byte with the two echo arms storing nothing
write_internal_byte_no_echo(b, address, byte) ==
    IF address <= \h7FFF \/ (address >= \hA000 /\ address <= \hBFFF)
    THEN cartridge_write_byte(b, address, byte)
    ELSE IF address <= \h9FFF THEN [b EXCEPT !.vram = Put(@, address - \h8000, byte)]
    ELSE IF address <= \hCFFF THEN [b EXCEPT !.wram0 = Put(@, address - \hC000, byte)]
    ELSE IF address <= \hDFFF THEN [b EXCEPT !.wram1 = Put(@, address - \hD000, byte)]
    ELSE IF address <= \hFDFF THEN b
    ELSE IF address <= \hFE9F THEN [b EXCEPT !.oam = Put(@, address - \hFE00, byte)]
    ELSE IF address <= \hFEFF THEN b
    ELSE IF address <= \hFF7F THEN [b EXCEPT !.io_regs = Put(@, address - \hFF00, byte)]
    ELSE IF address <= \hFFFE THEN [b EXCEPT !.hram = Put(@, address - \hFF80, byte)]
    ELSE [b EXCEPT !.interrupts = byte]

\* MemorySystem::write_internal_byte
write_internal_byte(b, address, byte) ==
    IF address <= \h7FFF \/ (address >= \hA000 /\ address <= \hBFFF)
    THEN cartridge_write_byte(b, address, byte)
    ELSE IF address <= \h9FFF THEN [b EXCEPT !.vram = Put(@, address - \h8000, byte)]
    ELSE IF address <= \hCFFF THEN [b EXCEPT !.wram0 = Put(@, address - \hC000, byte)]
    ELSE IF address <= \hDFFF THEN [b EXCEPT !.wram1 = Put(@, address - \hD000, byte)]
    ELSE IF address <= \hEFFF THEN [b EXCEPT !.wram0 = Put(@, address - \hE000, byte)]
    ELSE IF address <= \hFDFF THEN [b EXCEPT !.wram1 = Put(@, address - \hF000, byte)]
    ELSE IF address <= \hFE9F THEN [b EXCEPT !.oam = Put(@, address - \hFE00, byte)]
    ELSE IF address <= \hFEFF THEN b
    ELSE IF address <= \hFF7F THEN [b EXCEPT !.io_regs = Put(@, address - \hFF00, byte)]
    ELSE IF address <= \hFFFE THEN [b EXCEPT !.hram = Put(@, address - \hFF80, byte)]
    ELSE [b EXCEPT !.interrupts = byte]

\* a DMA loop that stops one byte short, `for i in 0..0x9F`
dma_transfer_short(b, src_addr) ==
    [b EXCEPT !.oam =
        EmptyArr @@ [i \in {j \in 0..(\hA0 - 1) :
                              (IF j < \h9F THEN read_byte(b, src_addr + j) ELSE Get(b.oam, j)) # 0}
                        |-> IF i < \h9F THEN read_byte(b, src_addr + i) ELSE Get(b.oam, i)]]

\* the DMA loop of write_byte, `for i in 0..0xA0`: OAM byte i := read_byte(src_addr + i).
\* No pass reads a byte that an earlier pass stored, except its own destination when the
\* source page is OAM itself, so every pass reads the bus as it was before the loop
dma_transfer(b, src_addr) ==
    [b EXCEPT !.oam =
        EmptyArr @@ [i \in {j \in 0..(\hA0 - 1) : read_byte(b, src_addr + j) # 0}
                        |-> read_byte(b, src_addr + i)]]

\* MemorySystem::write_byte
write_byte(b, address, byte) ==
    IF address = DIV_ADDR THEN write_internal_byte(b, address, 0)
    ELSE IF address = DMA_ADDR THEN dma_transfer(b, byte * 256)
    ELSE IF b.boot_rom_enabled /\ address < \h100 THEN b
    ELSE LET w == write_internal_byte(b, address, byte)
         IN  IF w.boot_rom_enabled /\ address = \hFF50
             THEN [w EXCEPT !.boot_rom_enabled = FALSE]
             ELSE w

\* `address + 1` on a u16: at 0xFFFF the sum overflows, which panics in a build
\* with overflow checks and wraps to 0x0000 in a build without them
word_overflows(address) == address = \hFFFF

\* MemorySystem::read_word, the value when address + 1 does not panic
read_word(b, address) ==
    read_byte(b, address) + 256 * read_byte(b, (address + 1) % 65536)

\* MemorySystem::write_word
write_word(b, address, word) ==
    write_byte(write_byte(b, address, Low8(word)), (address + 1) % 65536, High8(word))

\* define_flags_accessors!(interrupt_flag, 0xFF0F, Interrupt)
interrupt_flag(b) == BitAnd(read_byte(b, IF_ADDR), InterruptAll)

set_interrupt_flag(b, flags) ==
    write_byte(b, IF_ADDR, BitOr(read_byte(b, IF_ADDR), flags))

clear_interrupt_flag(b, flags) ==
    write_byte(b, IF_ADDR, BitAnd(read_byte(b, IF_ADDR), BitNot8(flags)))

update_interrupt_flag(b, flags, enabled) ==
    IF enabled THEN set_interrupt_flag(b, flags) ELSE clear_interrupt_flag(b, flags)

set_interrupt_flag_u8(b, value) == write_byte(b, IF_ADDR, value)

\* define_flags_accessors!(interrupt_enable, 0xFFFF, Interrupt)
interrupt_enable(b) == BitAnd(read_byte(b, IE_ADDR), InterruptAll)

set_interrupt_enable(b, flags) ==
    write_byte(b, IE_ADDR, BitOr(read_byte(b, IE_ADDR), flags))

set_interrupt_enable_u8(b, value) == write_byte(b, IE_ADDR, value)

(***************************************************************************)
(* cpu/mod.rs: flags, registers, Cpu::default().                           *)
(***************************************************************************)
FlagZ == \h80
FlagN == \h40
FlagH == \h20
FlagC == \h10

\* Cpu::default()
CpuDefault ==
    [af |-> \h01B0, bc |-> \h0013, de |-> \h00D8, hl |-> \h014D,
     sp |-> \hFFFE, pc |-> \h0100,
     halted |-> FALSE, stopped |-> FALSE, ime |-> FALSE, ime_scheduled |-> FALSE]

\* Register16::high / low / set_high / set_low
high(r) == r \div 256
low(r) == r % 256
set_high(r, v) == v * 256 + (r % 256)
set_low(r, v) == (r \div 256) * 256 + v

a(c) == high(c.af)
f(c) == low(c.af)
set_a(c, v) == [c EXCEPT !.af = set_high(@, v)]
set_f(c, v) == [c EXCEPT !.af = set_low(@, v)]

\* Cpu::flag / set_flag / clear_flag / set_flag_if / check_condition
flag(c, fl) == BitAnd(BitAnd(f(c), \hF0), fl) = fl
set_flag(c, fl) == set_f(c, BitOr(f(c), fl))
clear_flag(c, fl) == set_f(c, BitAnd(f(c), BitNot8(fl)))
set_flag_if(c, fl, condition) == IF condition THEN set_flag(c, fl) ELSE clear_flag(c, fl)

check_condition(c, cc) ==
    CASE cc = "NZ" -> ~flag(c, FlagZ)
      [] cc = "Z"  -> flag(c, FlagZ)
      [] cc = "NC" -> ~flag(c, FlagC)
      [] cc = "C"  -> flag(c, FlagC)

\* the 8-bit register accessors a(), b(), ... and their setters
reg8(c, r) ==
    CASE r = "A" -> high(c.af) [] r = "F" -> low(c.af)
      [] r = "B" -> high(c.bc) [] r = "C" -> low(c.bc)
      [] r = "D" -> high(c.de) [] r = "E" -> low(c.de)
      [] r = "H" -> high(c.hl) [] r = "L" -> low(c.hl)

set_reg8(c, r, v) ==
    CASE r = "A" -> [c EXCEPT !.af = set_high(@, v)]
      [] r = "B" -> [c EXCEPT !.bc = set_high(@, v)]
      [] r = "C" -> [c EXCEPT !.bc = set_low(@, v)]
      [] r = "D" -> [c EXCEPT !.de = set_high(@, v)]
      [] r = "E" -> [c EXCEPT !.de = set_low(@, v)]
      [] r = "H" -> [c EXCEPT !.hl = set_high(@, v)]
      [] r = "L" -> [c EXCEPT !.hl = set_low(@, v)]

Regs8 == {"A", "B", "C", "D", "E", "H", "L"}
Regs16 == {"AF", "BC", "DE", "HL", "SP"}

\* a push that stores the word at the old stack pointer and lowers SP afterwards
sp_push_word_post_decrement(c, b, value) ==
    [cpu |-> [c EXCEPT !.sp = Wrap16(c.sp + 65536 - 2)], bus |-> write_word(b, c.sp, value)]

\* Cpu::sp_push_word
sp_push_word(c, b, value) ==
    LET nsp == Wrap16(c.sp + 65536 - 2)
    IN  [cpu |-> [c EXCEPT !.sp = nsp], bus |-> write_word(b, nsp, value)]

\* Cpu::sp_pop_word: the value read, and the stack pointer after it
sp_pop_value(c, b) == read_word(b, c.sp)
sp_pop_cpu(c) == [c EXCEPT !.sp = Wrap16(c.sp + 2)]

(***************************************************************************)
(* cpu/decoder.rs: the primary decode table.                               *)
(***************************************************************************)
Instr(operation, op1, op2, cc, n, size, cycles, cycles_not_taken) ==
    [operation |-> operation, op1 |-> op1, op2 |-> op2, cc |-> cc, n |-> n,
     size |-> size, cycles |-> cycles, cycles_not_taken |-> cycles_not_taken]

\* instr!(inst, size, cycles): cycles_not_taken is 0
I0(operation, size, cycles) == Instr(operation, "-", "-", "-", 0, size, cycles, 0)
I1(operation, op1, size, cycles) == Instr(operation, op1, "-", "-", 0, size, cycles, 0)
I2(operation, op1, op2, size, cycles) == Instr(operation, op1, op2, "-", 0, size, cycles, 0)

None == Instr("None", "-", "-", "-", 0, 0, 0, 0)

z_cc(y) == CASE y = 0 -> "NZ" [] y = 1 -> "Z" [] y = 2 -> "NC" [] y = 3 -> "C"

z_r(y) ==
    CASE y = 0 -> "B" [] y = 1 -> "C" [] y = 2 -> "D" [] y = 3 -> "E"
      [] y = 4 -> "H" [] y = 5 -> "L" [] y = 7 -> "A"

z_rp(p) == CASE p = 0 -> "BC" [] p = 1 -> "DE" [] p = 2 -> "HL" [] p = 3 -> "SP"

z_rp2(p) == CASE p = 0 -> "BC" [] p = 1 -> "DE" [] p = 2 -> "HL" [] p = 3 -> "AF"

\* DecoderMask::from
mask_x(opcode) == (opcode \div 64) % 4
mask_y(opcode) == (opcode \div 8) % 8
mask_z(opcode) == opcode % 8
mask_p(opcode) == (opcode \div 16) % 4
mask_q(opcode) == (opcode \div 8) % 2

\* the arms of build_main_table with x = 0
main_table_x0(y, z, p, q) ==
    CASE z = 0 /\ y = 0 -> I0("NOP", 1, 4)
      [] z = 0 /\ y = 1 -> I2("LD", "(nn)", "SP", 3, 20)
      [] z = 0 /\ y = 2 -> I0("STOP", 2, 4)
      [] z = 0 /\ y = 3 -> I1("JR", "e", 2, 12)
      [] z = 0 /\ y >= 4 -> Instr("JRcc", "e", "-", z_cc(y - 4), 0, 2, 12, 8)
      [] z = 1 /\ q = 0 -> I2("LD", z_rp(p), "nn", 3, 12)
      [] z = 1 /\ q = 1 -> I2("ADD", "HL", z_rp(p), 1, 8)
      [] z = 2 /\ p = 0 /\ q = 0 -> I2("LD", "(BC)", "A", 1, 8)
      [] z = 2 /\ p = 1 /\ q = 0 -> I2("LD", "(DE)", "A", 1, 8)
      [] z = 2 /\ p = 2 /\ q = 0 -> I2("LD", "(HL+)", "A", 1, 8)
      [] z = 2 /\ p = 3 /\ q = 0 -> I2("LD", "(HL-)", "A", 1, 8)
      [] z = 2 /\ p = 0 /\ q = 1 -> I2("LD", "A", "(BC)", 1, 8)
      [] z = 2 /\ p = 1 /\ q = 1 -> I2("LD", "A", "(DE)", 1, 8)
      [] z = 2 /\ p = 2 /\ q = 1 -> I2("LD", "A", "(HL+)", 1, 8)
      [] z = 2 /\ p = 3 /\ q = 1 -> I2("LD", "A", "(HL-)", 1, 8)
      [] z = 3 /\ q = 0 -> I1("INC", z_rp(p), 1, 8)
      [] z = 3 /\ q = 1 -> I1("DEC", z_rp(p), 1, 8)
      [] z = 4 /\ y = 6 -> I1("INC", "(HL)", 1, 12)
      [] z = 4 /\ y # 6 -> I1("INC", z_r(y), 1, 4)
      [] z = 5 /\ y = 6 -> I1("DEC", "(HL)", 1, 12)
      [] z = 5 /\ y # 6 -> I1("DEC", z_r(y), 1, 4)
      [] z = 6 /\ y = 6 -> I2("LD", "(HL)", "n", 2, 12)
      [] z = 6 /\ y # 6 -> I2("LD", z_r(y), "n", 2, 8)
      [] z = 7 /\ y = 0 -> I0("RLCA", 1, 4)
      [] z = 7 /\ y = 1 -> I0("RRCA", 1, 4)
      [] z = 7 /\ y = 2 -> I0("RLA", 1, 4)
      [] z = 7 /\ y = 3 -> I0("RRA", 1, 4)
      [] z = 7 /\ y = 4 -> I0("DAA", 1, 4)
      [] z = 7 /\ y = 5 -> I0("CPL", 1, 4)
      [] z = 7 /\ y = 6 -> I0("SCF", 1, 4)
      [] z = 7 /\ y = 7 -> I0("CCF", 1, 4)

\* the arms with x = 1
main_table_x1(y, z) ==
    IF y # 6 /\ z = 6 THEN I2("LD", z_r(y), "(HL)", 1, 8)
    ELSE IF y = 6 /\ z # 6 THEN I2("LD", "(HL)", z_r(z), 1, 8)
    ELSE IF y # 6 THEN I2("LD", z_r(y), z_r(z), 1, 4)
    ELSE I0("HALT", 1, 4)

\* the arms with x = 2: the 8-bit ALU on (HL) or r[z]
main_table_x2(y, z) ==
    LET src == IF z = 6 THEN "(HL)" ELSE z_r(z)
        cyc == IF z = 6 THEN 8 ELSE 4
    IN  CASE y = 0 -> I2("ADD", "A", src, 1, cyc)
          [] y = 1 -> I2("ADC", "A", src, 1, cyc)
          [] y = 2 -> I1("SUB", src, 1, cyc)
          [] y = 3 -> I2("SBC", "A", src, 1, cyc)
          [] y = 4 -> I1("AND", src, 1, cyc)
          [] y = 5 -> I1("XOR", src, 1, cyc)
          [] y = 6 -> I1("OR", src, 1, cyc)
          [] y = 7 -> I1("CP", src, 1, cyc)

\* the arms with x = 3
main_table_x3(y, z, p, q) ==
    CASE z = 0 /\ y < 4 -> Instr("RETcc", "-", "-", z_cc(y), 0, 1, 20, 8)
      [] z = 0 /\ y = 4 -> I2("LDH", "(n)", "A", 2, 12)
      [] z = 0 /\ y = 5 -> I2("ADD", "SP", "e", 2, 16)
      [] z = 0 /\ y = 6 -> I2("LDH", "A", "(n)", 2, 12)
      [] z = 0 /\ y = 7 -> I2("LD", "HL", "SP+e", 2, 12)
      [] z = 1 /\ q = 0 -> I1("POP", z_rp2(p), 1, 12)
      [] z = 1 /\ q = 1 /\ p = 0 -> I0("RET", 1, 16)
      [] z = 1 /\ q = 1 /\ p = 1 -> I0("RETI", 1, 16)
      [] z = 1 /\ q = 1 /\ p = 2 -> I1("JP", "(HL)", 1, 4)
      [] z = 1 /\ q = 1 /\ p = 3 -> I2("LD", "SP", "HL", 1, 8)
      [] z = 2 /\ y < 4 -> Instr("JPcc", "nn", "-", z_cc(y), 0, 3, 16, 12)
      [] z = 2 /\ y = 4 -> I2("LDH", "(C)", "A", 1, 8)
      [] z = 2 /\ y = 5 -> I2("LD", "(nn)", "A", 3, 16)
      [] z = 2 /\ y = 6 -> I2("LDH", "A", "(C)", 1, 8)
      [] z = 2 /\ y = 7 -> I2("LD", "A", "(nn)", 3, 16)
      [] z = 3 /\ y = 0 -> I1("JP", "nn", 3, 16)
      [] z = 3 /\ y = 1 -> I0("CBPrefix", 1, 4)
      [] z = 3 /\ y \in 2..5 -> None
      [] z = 3 /\ y = 6 -> I0("DI", 1, 4)
      [] z = 3 /\ y = 7 -> I0("EI", 1, 4)
      [] z = 4 /\ y < 4 -> Instr("CALLcc", "nn", "-", z_cc(y), 0, 3, 24, 12)
      [] z = 4 /\ y >= 4 -> None
      [] z = 5 /\ q = 0 -> I1("PUSH", z_rp2(p), 1, 16)
      [] z = 5 /\ q = 1 /\ p = 0 -> I1("CALL", "nn", 3, 24)
      [] z = 5 /\ q = 1 /\ p # 0 -> None
      [] z = 6 /\ y = 0 -> I2("ADD", "A", "n", 2, 8)
      [] z = 6 /\ y = 1 -> I2("ADC", "A", "n", 2, 8)
      [] z = 6 /\ y = 2 -> I1("SUB", "n", 2, 8)
      [] z = 6 /\ y = 3 -> I2("SBC", "A", "n", 2, 8)
      [] z = 6 /\ y = 4 -> I1("AND", "n", 2, 8)
      [] z = 6 /\ y = 5 -> I1("XOR", "n", 2, 8)
      [] z = 6 /\ y = 6 -> I1("OR", "n", 2, 8)
      [] z = 6 /\ y = 7 -> I1("CP", "n", 2, 8)
      [] z = 7 -> Instr("RST", "-", "-", "-", y * 8, 1, 16, 0)

\* LR35902Decoder::build_main_table, entry `opcode`
build_main_table(opcode) ==
    LET x == mask_x(opcode)
        y == mask_y(opcode)
        z == mask_z(opcode)
        p == mask_p(opcode)
        q == mask_q(opcode)
    IN  CASE x = 0 -> main_table_x0(y, z, p, q)
          [] x = 1 -> main_table_x1(y, z)
          [] x = 2 -> main_table_x2(y, z)
          [] x = 3 -> main_table_x3(y, z, p, q)

\* LR35902Decoder::decode
decode(opcode) == build_main_table(opcode)

(***************************************************************************)
(* cpu/instruction.rs: operand access and Instruction::execute.            *)
(* The outcome of an execution is the CPU and bus after it, the value      *)
(* returned, and whether it panicked (todo!, unreachable!).                *)
(***************************************************************************)
\* `ovf`: the execution evaluated `address + 1` at address 0xFFFF
Ok(c, b, r) == [cpu |-> c, bus |-> b, ret |-> r, panic |-> "none", ovf |-> FALSE]

\* an outcome that went through read_word / write_word at `address`
OkW(c, b, r, address) ==
    [cpu |-> c, bus |-> b, ret |-> r, panic |-> "none", ovf |-> word_overflows(address)]

Panicked(c, b, why) == [cpu |-> c, bus |-> b, ret |-> 0, panic |-> why, ovf |-> FALSE]

\* read_u16_le!(data): data[0] is the first fetched immediate byte
read_u16_le(data) == data[2] * 256 + data[1]

\* the operands read_operand_value_u8! accepts
Rd8Ops == Regs8 \cup {"n", "e", "(HL)", "(HL+)", "(HL-)", "(n)", "(C)", "(DE)", "(BC)", "(nn)"}

\* read_operand_value_u8!: the value read
read_operand_value_u8(c, b, data, op) ==
    CASE op \in Regs8 -> reg8(c, op)
      [] op \in {"n", "e"} -> data[1]
      [] op \in {"(HL)", "(HL+)", "(HL-)"} -> read_byte(b, c.hl)
      [] op = "(n)" -> read_byte(b, BitOr(\hFF00, data[1]))
      [] op = "(C)" -> read_byte(b, BitOr(\hFF00, low(c.bc)))
      [] op = "(DE)" -> read_byte(b, c.de)
      [] op = "(BC)" -> read_byte(b, c.bc)
      [] op = "(nn)" -> read_byte(b, read_u16_le(data))

\* read_operand_value_u8!: the CPU after the read ((HL+) and (HL-) move HL)
read_operand_cpu_u8(c, op) ==
    CASE op = "(HL+)" -> [c EXCEPT !.hl = Wrap16(@ + 1)]
      [] op = "(HL-)" -> [c EXCEPT !.hl = Wrap16(@ + 65535)]
      [] OTHER -> c

\* the operands read_operand_value_u16! accepts
Rd16Ops == {"AF", "BC", "DE", "nn", "HL"}

\* read_operand_value_u16!
read_operand_value_u16(c, data, op) ==
    CASE op = "AF" -> c.af
      [] op = "BC" -> c.bc
      [] op = "DE" -> c.de
      [] op = "nn" -> read_u16_le(data)
      [] op = "HL" -> c.hl

\* the operands write_to_operand_u8! accepts
Wr8Ops == Regs8 \cup {"(n)", "(C)", "(nn)", "(DE)", "(BC)", "(HL)", "(HL+)", "(HL-)"}

\* write_to_operand_u8!: the CPU and the bus after the write
write_to_operand_u8(c, b, data, op, value) ==
    CASE op \in Regs8 -> [cpu |-> set_reg8(c, op, value), bus |-> b]
      [] op = "(n)" -> [cpu |-> c, bus |-> write_byte(b, BitOr(\hFF00, data[1]), value)]
      [] op = "(C)" -> [cpu |-> c, bus |-> write_byte(b, BitOr(\hFF00, low(c.bc)), value)]
      [] op = "(nn)" -> [cpu |-> c, bus |-> write_byte(b, read_u16_le(data), value)]
      [] op = "(DE)" -> [cpu |-> c, bus |-> write_byte(b, c.de, value)]
      [] op = "(BC)" -> [cpu |-> c, bus |-> write_byte(b, c.bc, value)]
      [] op = "(HL)" -> [cpu |-> c, bus |-> write_byte(b, c.hl, value)]
      [] op = "(HL+)" -> [cpu |-> [c EXCEPT !.hl = Wrap16(@ + 1)],
                          bus |-> write_byte(b, c.hl, value)]
      [] op = "(HL-)" -> [cpu |-> [c EXCEPT !.hl = Wrap16(@ + 65535)],
                          bus |-> write_byte(b, c.hl, value)]

\* the operands write_to_operand_u16! accepts
Wr16Ops == {"AF", "BC", "DE", "HL", "SP"}

\* write_to_operand_u16!
write_to_operand_u16(c, op, value) ==
    CASE op = "AF" -> [c EXCEPT !.af = value]
      [] op = "BC" -> [c EXCEPT !.bc = value]
      [] op = "DE" -> [c EXCEPT !.de = value]
      [] op = "HL" -> [c EXCEPT !.hl = value]
      [] op = "SP" -> [c EXCEPT !.sp = value]

\* match_size!: the 16-bit block is taken for these first operands
is_16bit(op1) == op1 \in {"AF", "BC", "DE", "HL", "SP"}

\* Z from the result, then the three other flags as given
flags_znhc(c, zero, n, h, cy) ==
    set_flag_if(set_flag_if(set_flag_if(set_flag_if(c, FlagZ, zero), FlagN, n), FlagH, h),
                FlagC, cy)

\* JP / JPcc taken
exec_jp(i, c, b, data) ==
    IF i.op1 \notin Rd16Ops THEN Panicked(c, b, "unsupported operand")
    ELSE Ok([c EXCEPT !.pc = read_operand_value_u16(c, data, i.op1)], b, i.cycles)

\* JR / JRcc taken
exec_jr(i, c, b, data) ==
    LET offset == AsI8(read_operand_value_u8(c, b, data, i.op1))
    IN  Ok([c EXCEPT !.pc = Wrap16(@ + 65536 + offset)], b, i.cycles)

\* CALL / CALLcc taken
exec_call(i, c, b, data) ==
    LET dest_addr == read_operand_value_u16(c, data, i.op1)
        pushed == sp_push_word(c, b, c.pc)
    IN  OkW([pushed.cpu EXCEPT !.pc = dest_addr], pushed.bus, i.cycles, pushed.cpu.sp)

\* RET / RETcc taken
exec_ret(i, c, b) ==
    OkW([sp_pop_cpu(c) EXCEPT !.pc = sp_pop_value(c, b)], b, i.cycles, c.sp)

\* RETI
exec_reti(i, c, b) ==
    OkW([sp_pop_cpu(c) EXCEPT !.pc = sp_pop_value(c, b), !.ime = TRUE], b, i.cycles, c.sp)

\* PUSH
exec_push(i, c, b, data) ==
    LET pushed == sp_push_word(c, b, read_operand_value_u16(c, data, i.op1))
    IN  OkW(pushed.cpu, pushed.bus, i.cycles, pushed.cpu.sp)

\* POP
exec_pop(i, c, b) ==
    OkW(write_to_operand_u16(sp_pop_cpu(c), i.op1, sp_pop_value(c, b)), b, i.cycles, c.sp)

\* AND / XOR / OR
exec_logic(i, c, b, data) ==
    IF i.op1 \notin Rd8Ops THEN Panicked(c, b, "unsupported operand")
    ELSE
    LET value == read_operand_value_u8(c, b, data, i.op1)
        c1 == read_operand_cpu_u8(c, i.op1)
        res == CASE i.operation = "AND" -> BitAnd(a(c1), value)
                 [] i.operation = "XOR" -> BitXor(a(c1), value)
                 [] i.operation = "OR"  -> BitOr(a(c1), value)
    IN  Ok(flags_znhc(set_a(c1, res), res = 0, FALSE, i.operation = "AND", FALSE),
           b, i.cycles)

\* ADD, 8-bit block
exec_add8(i, c, b, data) ==
    LET val1 == read_operand_value_u8(c, b, data, i.op1)
        val2 == read_operand_value_u8(c, b, data, i.op2)
        result == Wrap8(val1 + val2)
        w == write_to_operand_u8(c, b, data, i.op1, result)
        c1 == set_flag_if(w.cpu, FlagZ, result = 0)
        c2 == clear_flag(c1, FlagN)
        c3 == set_flag_if(c2, FlagC, val1 + val2 > 255)
        c4 == set_flag_if(c3, FlagH, (val1 % 16) + (val2 % 16) > 15)
    IN  Ok(c4, w.bus, i.cycles)

\* ADD, 16-bit block
exec_add16(i, c, b, data) ==
    IF i.op1 \notin Rd16Ops THEN Panicked(c, b, "unsupported operand")
    ELSE IF i.op2 = "e" THEN
        \* `as i16` of a u8 zero-extends: val2 is in 0..255
        LET val1 == read_operand_value_u16(c, data, i.op1)
            val2 == read_operand_value_u8(c, b, data, i.op2)
            result == Wrap16(val1 + val2)
            c1 == clear_flag(clear_flag(write_to_operand_u16(c, i.op1, result), FlagZ), FlagN)
            c2 == set_flag_if(c1, FlagH, (val1 % 16) + (val2 % 16) > 15)
            c3 == set_flag_if(c2, FlagC, val1 + val2 > 65535)
        IN  Ok(c3, b, i.cycles)
    ELSE IF i.op2 \notin Rd16Ops THEN Panicked(c, b, "unsupported operand")
    ELSE
        LET val1 == read_operand_value_u16(c, data, i.op1)
            val2 == read_operand_value_u16(c, data, i.op2)
            result == Wrap16(val1 + val2)
            c1 == clear_flag(write_to_operand_u16(c, i.op1, result), FlagN)
            c2 == set_flag_if(c1, FlagH, (val1 % 4096) + (val2 % 4096) > 4095)
            c3 == set_flag_if(c2, FlagC, val1 + val2 > 65535)
        IN  Ok(c3, b, i.cycles)

\* ADC A, op2
exec_adc(i, c, b, data) ==
    LET carry == IF flag(c, FlagC) THEN 1 ELSE 0
        val2 == a(c)
        val1 == read_operand_value_u8(c, b, data, i.op2)
        result == Wrap8(val1 + val2 + carry)
        c1 == flags_znhc(set_a(c, result), result = 0, FALSE,
                         (val1 % 16) + (val2 % 16) + carry > 15,
                         val1 + val2 + carry > 255)
    IN  Ok(c1, b, i.cycles)

\* SUB that stops at zero instead of wrapping (saturating_sub in place of wrapping_sub)
exec_sub_saturating(i, c, b, data) ==
    LET val == read_operand_value_u8(c, b, data, i.op1)
        result == IF a(c) < val THEN 0 ELSE a(c) - val
        c1 == set_a(c, result)
        c2 == flags_znhc(c1, result = 0, TRUE, (a(c1) % 16) < (val % 16), a(c1) < val)
    IN  Ok(c2, b, i.cycles)

\* SUB: the flags H and C are computed from cpu.a() after set_a(result)
exec_sub(i, c, b, data) ==
    LET val == read_operand_value_u8(c, b, data, i.op1)
        result == Wrap8(a(c) + 256 - val)
        c1 == set_a(c, result)
        c2 == flags_znhc(c1, result = 0, TRUE, (a(c1) % 16) < (val % 16), a(c1) < val)
    IN  Ok(c2, b, i.cycles)

\* SBC op1, op2
exec_sbc(i, c, b, data) ==
    LET carry == IF flag(c, FlagC) THEN 1 ELSE 0
        val1 == read_operand_value_u8(c, b, data, i.op1)
        val2 == read_operand_value_u8(c, b, data, i.op2)
        result == Wrap8(val1 + 512 - val2 - carry)
        c1 == flags_znhc(set_a(c, result), result = 0, TRUE,
                         (val1 % 16) < (val2 % 16) + carry, val1 < val2 + carry)
    IN  Ok(c1, b, i.cycles)

\* DEC / INC: `delta` is 65535 for DEC and 1 for INC
exec_incdec(i, c, b, data) ==
    LET inc == i.operation = "INC"
    IN  IF is_16bit(i.op1) THEN
            IF i.op1 \notin Rd16Ops THEN Panicked(c, b, "unsupported operand")
            ELSE LET value == read_operand_value_u16(c, data, i.op1)
                     result == Wrap16(value + (IF inc THEN 1 ELSE 65535))
                 IN  Ok(write_to_operand_u16(c, i.op1, result), b, i.cycles)
        ELSE
            LET value == read_operand_value_u8(c, b, data, i.op1)
                result == Wrap8(value + (IF inc THEN 1 ELSE 255))
                w == write_to_operand_u8(c, b, data, i.op1, result)
                c1 == set_flag_if(w.cpu, FlagZ, result = 0)
                c2 == IF inc THEN clear_flag(c1, FlagN) ELSE set_flag(c1, FlagN)
                c3 == set_flag_if(c2, FlagH, IF inc THEN value % 16 = 15 ELSE value % 16 = 0)
                c4 == IF inc THEN clear_flag(c3, FlagC) ELSE c3
            IN  Ok(c4, w.bus, i.cycles)

\* CP: stores the difference in A and returns self.size
exec_cp(i, c, b, data) ==
    LET value == read_operand_value_u8(c, b, data, i.op1)
        result == Wrap8(a(c) + 256 - value)
        c1 == set_a(c, result)
        c2 == flags_znhc(c1, result = 0, TRUE, (a(c1) % 16) < (value % 16), a(c1) < value)
    IN  Ok(c2, b, i.size)

\* CPL
exec_cpl(i, c, b) ==
    Ok(set_flag(set_flag(set_a(c, BitXor(\hFF, a(c))), FlagN), FlagH), b, i.cycles)

\* RLA / RRA / RLCA / RRCA
exec_rot_a(i, c, b) ==
    LET val == a(c)
        cin == IF flag(c, FlagC) THEN 1 ELSE 0
        result == CASE i.operation = "RLA"  -> Wrap8(val * 2) + cin
                    [] i.operation = "RRA"  -> (val \div 2) + cin * 128
                    [] i.operation = "RLCA" -> Wrap8(val * 2) + (val \div 128)
                    [] i.operation = "RRCA" -> (val \div 2) + (val % 2) * 128
        cout == IF i.operation \in {"RLA", "RLCA"} THEN val >= 128 ELSE val % 2 = 1
        c1 == clear_flag(set_a(c, result), FlagZ + FlagN + FlagH)
    IN  Ok(set_flag_if(c1, FlagC, cout), b, i.cycles)

\* the two blocks of LD; LDH is the 8-bit block
exec_ld(i, c, b, data, r) ==
    IF i.operation = "LD" /\ is_16bit(i.op1) THEN
        IF i.op2 \notin Rd16Ops THEN Panicked(c, b, "unsupported operand")
        ELSE Ok(write_to_operand_u16(c, i.op1, read_operand_value_u16(c, data, i.op2)), b, r)
    ELSE IF i.op2 \notin Rd8Ops \/ i.op1 \notin Wr8Ops
         THEN Panicked(c, b, "unsupported operand")
    ELSE LET val_u8 == read_operand_value_u8(c, b, data, i.op2)
             w == write_to_operand_u8(read_operand_cpu_u8(c, i.op2), b, data, i.op1, val_u8)
         IN  Ok(w.cpu, w.bus, r)

\* RST v
exec_rst(i, c, b) ==
    LET nsp == Wrap16(c.sp + 65534)
    IN  OkW([c EXCEPT !.sp = nsp, !.pc = i.n], write_word(b, nsp, c.pc), i.cycles, nsp)

\* Operations execute() has an arm for; any other one reaches todo!()
Implemented ==
    {"NOP", "JP", "JPcc", "JR", "JRcc", "CALL", "CALLcc", "RET", "RETcc", "RETI",
     "PUSH", "POP", "AND", "XOR", "ADD", "ADC", "SUB", "SBC", "OR", "DEC", "INC",
     "CP", "CPL", "RLA", "RRA", "RLCA", "RRCA", "LD", "LDH", "RST", "DI", "EI", "HALT"}

\* a condition that is never looked at: every conditional instruction transfers
cc_ignored(i, c) == FALSE

\* handle_cc_not_taken!
cc_not_taken(i, c) == i.cc # "-" /\ ~check_condition(c, i.cc)

\* Instruction::execute
execute(i, c, b, data) ==
    IF i.operation \notin Implemented \/ (i.operation = "ADC" /\ i.op1 # "A")
    THEN Panicked(c, b, "not implemented")
    ELSE IF cc_not_taken(i, c) THEN Ok(c, b, i.cycles_not_taken)
    ELSE CASE i.operation = "NOP" -> Ok(c, b, i.cycles)
           [] i.operation \in {"JP", "JPcc"} -> exec_jp(i, c, b, data)
           [] i.operation \in {"JR", "JRcc"} -> exec_jr(i, c, b, data)
           [] i.operation \in {"CALL", "CALLcc"} -> exec_call(i, c, b, data)
           [] i.operation \in {"RET", "RETcc"} -> exec_ret(i, c, b)
           [] i.operation = "RETI" -> exec_reti(i, c, b)
           [] i.operation = "PUSH" -> exec_push(i, c, b, data)
           [] i.operation = "POP" -> exec_pop(i, c, b)
           [] i.operation \in {"AND", "XOR", "OR"} -> exec_logic(i, c, b, data)
           [] i.operation = "ADD" ->
                IF is_16bit(i.op1) THEN exec_add16(i, c, b, data)
                ELSE exec_add8(i, c, b, data)
           [] i.operation = "ADC" -> exec_adc(i, c, b, data)
           [] i.operation = "SUB" -> exec_sub(i, c, b, data)
           [] i.operation = "SBC" -> exec_sbc(i, c, b, data)
           [] i.operation \in {"DEC", "INC"} -> exec_incdec(i, c, b, data)
           [] i.operation = "CP" -> exec_cp(i, c, b, data)
           [] i.operation = "CPL" -> exec_cpl(i, c, b)
           [] i.operation \in {"RLA", "RRA", "RLCA", "RRCA"} -> exec_rot_a(i, c, b)
           [] i.operation = "LD" -> exec_ld(i, c, b, data, i.cycles)
           [] i.operation = "LDH" -> exec_ld(i, c, b, data, i.size)
           [] i.operation = "RST" -> exec_rst(i, c, b)
           [] i.operation = "DI" -> Ok([c EXCEPT !.ime = FALSE], b, i.cycles)
           [] i.operation = "EI" -> Ok([c EXCEPT !.ime = TRUE], b, i.cycles)
           [] i.operation = "HALT" -> Ok(c, b, i.cycles)

(***************************************************************************)
(* cpu/mod.rs: Cpu::handle_interrupt and Cpu::step.                        *)
(***************************************************************************)
\* IF & IE as handle_interrupt computes it
triggered(b) == BitAnd(interrupt_flag(b), interrupt_enable(b))

\* a priority chain that serves the highest-numbered interrupt first
interrupt_bit_reversed(t) ==
    CASE BitAnd(t, JOYPAD) = JOYPAD -> JOYPAD
      [] BitAnd(t, SERIAL) = SERIAL -> SERIAL
      [] BitAnd(t, TIMER) = TIMER -> TIMER
      [] BitAnd(t, LCD_STAT) = LCD_STAT -> LCD_STAT
      [] BitAnd(t, VBLANK) = VBLANK -> VBLANK

\* the priority chain of handle_interrupt: the first flag `t` contains
interrupt_bit(t) ==
    CASE BitAnd(t, VBLANK) = VBLANK -> VBLANK
      [] BitAnd(t, LCD_STAT) = LCD_STAT -> LCD_STAT
      [] BitAnd(t, TIMER) = TIMER -> TIMER
      [] BitAnd(t, SERIAL) = SERIAL -> SERIAL
      [] BitAnd(t, JOYPAD) = JOYPAD -> JOYPAD

\* the vector handle_interrupt jumps to for one flag
interrupt_vector(which) ==
    CASE which = VBLANK -> \h0040
      [] which = LCD_STAT -> \h0048
      [] which = TIMER -> \h0050
      [] which = SERIAL -> \h0058
      [] which = JOYPAD -> \h0060

\* a dispatch that pushes PC and jumps with IME left as it was
dispatch_interrupt_keeping_ime(c, b) ==
    LET which == interrupt_bit(triggered(b))
        b1 == update_interrupt_flag(b, which, FALSE)
        pushed == sp_push_word(c, b1, c.pc)
    IN  OkW([pushed.cpu EXCEPT !.pc = interrupt_vector(which)], pushed.bus, 20, pushed.cpu.sp)

\* handle_interrupt, from `Disable IME` on
dispatch_interrupt(c, b) ==
    LET which == interrupt_bit(triggered(b))
        c1 == [c EXCEPT !.ime = FALSE, !.ime_scheduled = FALSE]
        b1 == update_interrupt_flag(b, which, FALSE)
        pushed == sp_push_word(c1, b1, c1.pc)
    IN  OkW([pushed.cpu EXCEPT !.pc = interrupt_vector(which)], pushed.bus, 20, pushed.cpu.sp)

\* an interrupt check that lets a halted CPU take the vector whatever IME is
handle_interrupt_ignoring_ime(c, b) ==
    IF triggered(b) = 0 \/ (~c.ime /\ ~c.halted) THEN Ok(c, b, 0)
    ELSE dispatch_interrupt([c EXCEPT !.halted = FALSE], b)

\* Cpu::handle_interrupt
handle_interrupt(c, b) ==
    LET c1 == IF c.halted /\ triggered(b) # 0 THEN [c EXCEPT !.halted = FALSE] ELSE c
    IN  IF c.halted /\ triggered(b) = 0 THEN Ok(c, b, 0)
        ELSE IF ~c.ime THEN Ok(c1, b, 0)
        ELSE IF triggered(b) = 0 THEN Ok(c1, b, 0)
        ELSE dispatch_interrupt(c1, b)

\* Cpu::pc_read_byte: the program counter after one fetch
pc_advance(c) == [c EXCEPT !.pc = Wrap16(@ + 1)]

\* the ime_scheduled promotion of Cpu::step
promote_ime(c) ==
    IF c.ime_scheduled THEN [c EXCEPT !.ime = TRUE, !.ime_scheduled = FALSE] ELSE c

\* the addresses Cpu::step fetches from when it reaches its fetch
fetch_addr(c, k) == Wrap16(c.pc + k)

\* the immediate bytes of an instruction of `size` bytes at the fetched bytes
fetch_data(b, c, size) ==
    [k \in 1..(size - 1) |-> read_byte(b, fetch_addr(c, k))]

\* Cpu::step from the fetch on: `c` has the interrupt check and the promotion behind it
fetch_execute(c, b) ==
    LET opcode == read_byte(b, c.pc)
        instruction == decode(opcode)
        data == fetch_data(b, c, instruction.size)
        c1 == [c EXCEPT !.pc = Wrap16(@ + instruction.size)]
    IN  IF instruction = None
        THEN [cpu |-> pc_advance(c), bus |-> b, ret |-> 0, panic |-> "none", ovf |-> FALSE,
              err |-> TRUE]
        ELSE [err |-> FALSE] @@ execute(instruction, c1, b, data)

\* Cpu::step after its interrupt check, whose outcome is `irq`
step_after_check(irq) ==
    IF irq.ret > 0 THEN [err |-> FALSE, irq |-> irq, fetched |-> FALSE] @@ irq
    ELSE IF irq.cpu.halted
    THEN [err |-> FALSE, irq |-> irq, fetched |-> FALSE] @@ Ok(irq.cpu, irq.bus, 4)
    ELSE [irq |-> irq, fetched |-> TRUE] @@ fetch_execute(promote_ime(irq.cpu), irq.bus)

\* Cpu::step: the outcome, with the outcome of its interrupt check in `irq`
cpu_step(c, b) == step_after_check(handle_interrupt(c, b))

(***************************************************************************)
(* The CPU on the memory bus.  The cartridge image is the program's input: *)
(* a cell of it is fixed the first time the CPU fetches from it.           *)
(***************************************************************************)
\* bound: calls of Cpu::step in one behaviour
MaxSteps == 3

\* bound: interrupt requests raised by the devices in one behaviour
MaxRequests == 1

\* the opcodes an undetermined cell of the image may hold when it is fetched:
\* NOP, STOP, HALT, RETI, LDH (n),A, DI, EI
Opcodes == {\h00, \h10, \h76, \hD9, \hE0, \hF3, \hFB}

\* the immediate bytes an undetermined cell may hold
DataBytes == {\h0F}

\* the values the harness writes to IE
IEValues == {\h0A, \h1F}

\* the sets of interrupts the devices may raise between two CPU steps
RequestMasks == {\h01, \h02, \h04, \h08, \h10, \h1E, \h1F}

\* Timer::default()
TimerDefault == [div_cycles |-> 0, timer_cycles |-> 0]

\* Ppu::default(); the frame buffer is not modelled
PpuDefault == [mode |-> "HBlank", mode_clock |-> 0, current_line_sprites |-> <<>>]

\* Option<u16>::None
NoAddr == -1

\* Joypad::default(): three empty P1JOYP
JoypadDefault == [buttons |-> 0, d_pad |-> 0, prev |-> 0]

\* no step_frame call under way
NoFrame == [running |-> FALSE, i |-> 0, total_cycles |-> 0, breakpoint_hit |-> FALSE]

\* Machine::default(), without the fields held in cpu, bus, timer and ppu
MachineDefault ==
    [joypad |-> JoypadDefault, start_addr |-> NoAddr, breakpoints |-> {}, frame |-> NoFrame]

NoCall == [op |-> "none"]

NoRet == [kind |-> "none", value |-> 0]

\* a cell of the image not fetched yet
undetermined(b, address) ==
    /\ address <= \h7FFF
    /\ ~(b.boot_rom_enabled /\ address < \h100)
    /\ address \notin DOMAIN b.cartridge.rom

\* what a fetch at `address` may read: any byte of `choices` for a cell of the
\* image not fixed yet, the cell's byte otherwise
FetchChoices(b, address, choices) ==
    IF undetermined(b, address) THEN choices ELSE {read_byte(b, address)}

\* whether Cpu::step gets to its fetch
reaches_fetch(c, b) ==
    LET irq == handle_interrupt(c, b) IN irq.ret = 0 /\ ~irq.cpu.halted

\* what the fetch of the k-th immediate byte of `opcode` may read (0 stands for
\* a byte the instruction does not have)
OperandChoices(c, b, opcode, k) ==
    IF decode(opcode).size > k /\ reaches_fetch(c, b)
    THEN FetchChoices(b, fetch_addr(c, k), DataBytes)
    ELSE {0}

\* the image with `address` fixed to `byte`
burn(b, address, byte) ==
    IF undetermined(b, address)
    THEN [b EXCEPT !.cartridge.rom = [i \in (DOMAIN @) \cup {address} |->
                                        IF i = address THEN byte ELSE @[i]]]
    ELSE b

\* the bus with the cells this step fetches fixed to the bytes read
with_fetched(c, b, opcode, d1, d2) ==
    LET size == decode(opcode).size
        b0 == burn(b, c.pc, opcode)
        b1 == IF size >= 2 THEN burn(b0, fetch_addr(c, 1), d1) ELSE b0
        b2 == IF size >= 3 THEN burn(b1, fetch_addr(c, 2), d2) ELSE b1
    IN  IF reaches_fetch(c, b) THEN b2 ELSE b

\* what Cpu::step returned, as the caller sees it
step_ret(out, bld) ==
    IF out.panic # "none" THEN [kind |-> "panic", value |-> 0]
    ELSE IF out.ovf /\ bld = "debug" THEN [kind |-> "panic", value |-> 0]
    ELSE IF out.err THEN [kind |-> "Err", value |-> 0]
    ELSE [kind |-> "Ok", value |-> out.ret]

\* the builds an outcome is possible in: an overflow shows which build runs
Builds(out) ==
    IF out.ovf /\ build = "any" THEN {"debug", "release"} ELSE {build}

Running == ret.kind # "panic"

Init ==
    /\ cpu = CpuDefault
    /\ bus = [MemorySystemDefault EXCEPT !.cartridge = LoadedCartridge([i \in {} |-> 0])]
    /\ timer = TimerDefault
    /\ ppu = PpuDefault
    /\ machine = MachineDefault
    /\ build = "any"
    /\ ret = NoRet
    /\ last = NoCall
    /\ ghost = [steps |-> 0, requests |-> 0, after_ei |-> FALSE]

\* Cpu::step(&mut bus)
Step ==
    /\ Running
    /\ ghost.steps < MaxSteps
    /\ \E opcode \in FetchChoices(bus, cpu.pc, Opcodes) :
       \E d1 \in OperandChoices(cpu, bus, opcode, 1) :
       \E d2 \in OperandChoices(cpu, bus, opcode, 2) :
       \E b0 \in {with_fetched(cpu, bus, opcode, d1, d2)} :
       \E out \in {cpu_step(cpu, b0)} :
       \E bld \in Builds(out) :
       \E r \in {step_ret(out, bld)} :
          /\ build' = bld
          /\ cpu' = out.cpu
          /\ bus' = out.bus
          /\ ret' = r
          /\ last' = [op |-> "step", cpu |-> cpu, bus |-> b0, irq |-> out.irq,
                      fetched |-> out.fetched,
                      opcode |-> IF out.fetched THEN opcode ELSE -1,
                      after_ei |-> ghost.after_ei]
          /\ ghost' = [ghost EXCEPT !.steps = @ + 1,
                          !.after_ei = out.fetched /\ r.kind = "Ok" /\ opcode = \hFB
                                       /\ ~cpu.ime]
    /\ UNCHANGED <<machine, timer, ppu>>

\* the devices raise interrupts: InterruptBus::set_interrupt_flag
RequestInterrupt ==
    /\ Running
    /\ ghost.requests < MaxRequests
    /\ \E mask \in RequestMasks :
          /\ BitAnd(interrupt_flag(bus), mask) # mask
          /\ bus' = set_interrupt_flag(bus, mask)
          /\ last' = [op |-> "set_interrupt_flag", mask |-> mask]
    /\ ghost' = [ghost EXCEPT !.requests = @ + 1]
    /\ UNCHANGED <<machine, cpu, timer, ppu, build, ret>>

\* InterruptBus::set_interrupt_enable_u8
EnableInterrupts ==
    /\ Running
    /\ ghost.steps = 0
    /\ \E value \in IEValues :
          /\ read_byte(bus, IE_ADDR) # value
          /\ bus' = set_interrupt_enable_u8(bus, value)
          /\ last' = [op |-> "set_interrupt_enable_u8", value |-> value]
    /\ UNCHANGED <<machine, cpu, timer, ppu, build, ret, ghost>>

\* Cpu::set_halted(true)
SetHalted ==
    /\ Running
    /\ ~cpu.halted
    /\ cpu' = [cpu EXCEPT !.halted = TRUE]
    /\ last' = [op |-> "set_halted"]
    /\ UNCHANGED <<machine, bus, timer, ppu, build, ret, ghost>>

Next == Step \/ RequestInterrupt \/ EnableInterrupts \/ SetHalted

Spec == Init /\ [][Next]_vars

(***************************************************************************)
(* One instruction from the reset state: every primary opcode, executed    *)
(* once by Cpu::step from a cartridge image that holds it at 0x0100.       *)
(***************************************************************************)
\* every primary opcode but the CB prefix
DecodeOpcodes == (0..255) \ {\hCB}

\* the immediate bytes after the opcode
DecodeData1 == {\h02, \hFF}
DecodeData2 == {\hC0}

\* the values of AF the instruction starts from
DecodeAF == {\h01B0, \hFF00}

\* the image that holds one instruction at the entry point
OneInstruction(opcode, d1, d2) ==
    [i \in {\h0100, \h0101, \h0102} |->
        IF i = \h0100 THEN opcode ELSE IF i = \h0101 THEN d1 ELSE d2]

InitDecode ==
    /\ \E opcode \in DecodeOpcodes, d1 \in DecodeData1, d2 \in DecodeData2, af \in DecodeAF :
          /\ cpu = [CpuDefault EXCEPT !.af = af]
          /\ bus = [MemorySystemDefault EXCEPT
                       !.cartridge = LoadedCartridge(OneInstruction(opcode, d1, d2))]
    /\ timer = TimerDefault
    /\ ppu = PpuDefault
    /\ machine = MachineDefault
    /\ build = "any"
    /\ ret = NoRet
    /\ last = NoCall
    /\ ghost = [steps |-> 0, requests |-> 0, after_ei |-> FALSE]

\* the first Cpu::step of the machine
ExecuteOne == ghost.steps = 0 /\ Step

NextDecode == ExecuteOne

SpecDecode == InitDecode /\ [][NextDecode]_vars

(***************************************************************************)
(* The claims about the interrupt dispatcher, HALT, EI and cycle counts.   *)
(***************************************************************************)
\* pending = IF & IE & 0x1F, read from the two registers
Pending(b) == BitAnd(BitAnd(read_byte(b, IF_ADDR), read_byte(b, IE_ADDR)), \h1F)

\* the number of the lowest set bit of a nonzero pending set
LowestBit(p) == CHOOSE k \in 0..4 : Bit(p, k) = 1 /\ \A j \in 0..(k - 1) : Bit(p, j) = 0

\* a store to `address` is read back from it: video, work, echo, OAM and high RAM,
\* IE, and the I/O registers other than DIV and DMA
ReadsBack(address) ==
    /\ address >= \h8000
    /\ ~(address >= \hA000 /\ address <= \hBFFF)
    /\ ~(address >= \hFEA0 /\ address <= \hFEFF)
    /\ address \notin {DIV_ADDR, DMA_ADDR}

\* the last call was a Cpu::step that started with IME set and an interrupt pending
DispatchCase == last.op = "step" /\ last.cpu.ime /\ Pending(last.bus) # 0

\* C1: a step that starts with ime = true and pending # 0 executes no instruction;
\* it clears exactly the lowest pending bit in IF, clears ime and ime_scheduled,
\* pushes PC (SP - 2, low byte at the new SP, high byte above it), jumps to
\* 0x0040 + 8 * bit and returns 20.  The two bytes are stored through the bus:
\* they read back wherever a store does, and IF holds the cleared value unless
\* the stack lies over it.
C1_InterruptDispatch ==
    DispatchCase =>
        LET k == LowestBit(Pending(last.bus))
            nsp == (last.cpu.sp + 65534) % 65536
            if_cleared == read_byte(last.bus, IF_ADDR) - 2 ^ k
        IN  /\ ~last.fetched
            /\ ret = [kind |-> "Ok", value |-> 20]
            /\ cpu = [last.cpu EXCEPT !.ime = FALSE, !.ime_scheduled = FALSE,
                                      !.halted = FALSE, !.sp = nsp, !.pc = 64 + 8 * k]
            /\ bus = write_byte(write_byte(write_byte(last.bus, IF_ADDR, if_cleared),
                                           nsp, last.cpu.pc % 256),
                                (nsp + 1) % 65536, last.cpu.pc \div 256)
            /\ (IF_ADDR \notin {nsp, nsp + 1}) => read_byte(bus, IF_ADDR) = if_cleared
            /\ (ReadsBack(nsp) /\ ReadsBack(nsp + 1)) =>
                   /\ read_byte(bus, nsp) = last.cpu.pc % 256
                   /\ read_byte(bus, nsp + 1) = last.cpu.pc \div 256

\* C1 witness: LCD_STAT, TIMER, SERIAL and JOYPAD pending together, LCD_STAT served
C1_Witness ==
    /\ DispatchCase
    /\ Pending(last.bus) = \h1E
    /\ cpu.pc = \h0048
    /\ ret.value = 20

\* the last call was Cpu::step and it executed the opcode `op` to the end
Executed(op) ==
    last.op = "step" /\ last.fetched /\ last.opcode = op /\ ret.kind = "Ok"

\* C2: HALT executed with ime = true and nothing pending returns 4 and leaves the
\* CPU halted; a halted CPU with ime = true takes the vector of an enabled
\* interrupt once it is raised: 20 cycles, halted cleared, PC at the vector.
C2_HaltThenWake ==
    /\ (Executed(\h76) /\ last.cpu.ime /\ Pending(last.bus) = 0) =>
           (ret.value = 4 /\ cpu.halted)
    /\ (DispatchCase /\ last.cpu.halted) =>
           /\ ret.value = 20
           /\ ~cpu.halted
           /\ cpu.pc = 64 + 8 * LowestBit(Pending(last.bus))

\* the last call was a Cpu::step that started halted, IME clear, an interrupt pending
HaltExitCase ==
    last.op = "step" /\ last.cpu.halted /\ ~last.cpu.ime /\ Pending(last.bus) # 0

\* C3: halted with ime = false and an interrupt pending, the interrupt check clears
\* halted and takes no vector: 0 cycles, IF, PC, SP and the stack untouched; the
\* step goes on to fetch the instruction at PC.
C3_HaltExitNoVector ==
    HaltExitCase =>
        /\ last.irq.ret = 0
        /\ last.irq.cpu = [last.cpu EXCEPT !.halted = FALSE]
        /\ last.irq.bus = last.bus
        /\ Pending(last.irq.bus) = Pending(last.bus)
        /\ last.fetched
        /\ last.opcode = read_byte(last.bus, last.cpu.pc)

\* C3 witness: the step left HALT on TIMER alone and executed the NOP at PC
C3_Witness ==
    /\ HaltExitCase
    /\ Pending(last.bus) = TIMER
    /\ Executed(\h00)
    /\ cpu.pc = (last.cpu.pc + 1) % 65536

\* C4: EI executed with ime = false leaves ime false and schedules it; the step
\* that follows EI does not dispatch an interrupt in its interrupt check.
C4_EiDelayed ==
    /\ (Executed(\hFB) /\ ~last.cpu.ime) => (~cpu.ime /\ cpu.ime_scheduled)
    /\ (last.op = "step" /\ last.after_ei) => last.irq.ret = 0

\* C5: an executed instruction returns its decode-table cycles, or its
\* cycles_not_taken when its condition is false
C5_CyclesFromTable ==
    (last.op = "step" /\ last.fetched /\ ret.kind = "Ok") =>
        ret.value = IF cc_not_taken(decode(last.opcode), last.cpu)
                    THEN decode(last.opcode).cycles_not_taken
                    ELSE decode(last.opcode).cycles

(***************************************************************************)
(* timer/mod.rs and timer/timer_bus.rs on the memory bus.                  *)
(***************************************************************************)
TIMA_ADDR == \hFF05
TMA_ADDR == \hFF06
TAC_ADDR == \hFF07

TacEnable == \h04
TacAll == \h07

\* define_u8_accessors!(div, 0xFF04)
div(b) == read_byte(b, DIV_ADDR)
set_div(b, value) == write_byte(b, DIV_ADDR, value)

\* define_u8_accessors!(tima, 0xFF05) and (tma, 0xFF06)
tima(b) == read_byte(b, TIMA_ADDR)
set_tima(b, value) == write_byte(b, TIMA_ADDR, value)
tma(b) == read_byte(b, TMA_ADDR)
set_tma(b, value) == write_byte(b, TMA_ADDR, value)

\* define_flags_accessors!(tac, 0xFF07, TAC)
tac(b) == BitAnd(read_byte(b, TAC_ADDR), TacAll)
set_tac_u8(b, value) == write_byte(b, TAC_ADDR, value)

\* the match on (ClockSelect1, ClockSelect0)
timer_freq(t) ==
    CASE t % 4 = 0 -> 256
      [] t % 4 = 1 -> 4
      [] t % 4 = 2 -> 16
      [] t % 4 = 3 -> 64

\* Timer::step, the DIV half: the timer and the bus after it
timer_step_div(t, b, cycles) ==
    LET sum == (t.div_cycles + cycles) % 65536
    IN  IF sum >= 256
        THEN [timer |-> [t EXCEPT !.div_cycles = sum - 256],
              bus |-> set_div(b, (div(b) + 1) % 256)]
        ELSE [timer |-> [t EXCEPT !.div_cycles = sum], bus |-> b]

\* a TIMA half that wraps from 0xFF to 0x00 and raises nothing
timer_step_tima_wrapping(t, b, cycles) ==
    LET sum == (t.timer_cycles + cycles) % 65536
    IN  IF sum >= timer_freq(tac(b))
        THEN [timer |-> [t EXCEPT !.timer_cycles = sum - timer_freq(tac(b))],
              bus |-> set_tima(b, (tima(b) + 1) % 256)]
        ELSE [timer |-> [t EXCEPT !.timer_cycles = sum], bus |-> b]

\* Timer::step, the TIMA half, taken when TAC.Enable is set
timer_step_tima(t, b, cycles) ==
    LET sum == (t.timer_cycles + cycles) % 65536
    IN  IF sum >= timer_freq(tac(b))
        THEN [timer |-> [t EXCEPT !.timer_cycles = sum - timer_freq(tac(b))],
              bus |-> IF tima(b) = \hFF
                      THEN set_interrupt_flag(set_tima(b, tma(b)), TIMER)
                      ELSE set_tima(b, (tima(b) + 1) % 256)]
        ELSE [timer |-> [t EXCEPT !.timer_cycles = sum], bus |-> b]

\* Timer::step after its DIV half, whose outcome is `d`
timer_step_rest(d, cycles) ==
    IF BitAnd(tac(d.bus), TacEnable) = 0 THEN d
    ELSE timer_step_tima(d.timer, d.bus, cycles)

\* Timer::step
timer_step(t, b, cycles) == timer_step_rest(timer_step_div(t, b, cycles), cycles)

(***************************************************************************)
(* ppu/mod.rs and ppu/ppu_bus.rs on the memory bus.  The frame buffer is   *)
(* left out: with the window layer off, render_scanline only stores 0 into *)
(* a buffer that starts as all 0.                                          *)
(***************************************************************************)
LCDC_ADDR == \hFF40
STAT_ADDR == \hFF41
LY_ADDR == \hFF44
LYC_ADDR == \hFF45
OAM_BASE == \hFE00

\* LcdControl
LCDC_ENABLE == \h80
LCDC_WINDOW_ENABLE == \h20
LCDC_OBJ_SIZE == \h04
LCDC_BG_WINDOW_ENABLE == \h01

\* LcdStatus
STAT_LYC_INTERRUPT == \h40
STAT_OAM_INTERRUPT == \h20
STAT_VBLANK_INTERRUPT == \h10
STAT_HBLANK_INTERRUPT == \h08
STAT_LYC_EQUAL == \h04
STAT_MODE_BIT_1 == \h02
STAT_MODE_BIT_0 == \h01
StatAll == \h7F

\* bitflags' contains(), for a one-bit flag
contains(bits, one) == (bits \div one) % 2 = 1

\* PpuBus::lcdc: every bit of the byte is a LcdControl flag
lcdc(b) == read_byte(b, LCDC_ADDR)

\* PpuBus::stat: from_bits_truncate keeps the seven LcdStatus bits
stat(b) == read_byte(b, STAT_ADDR) % (StatAll + 1)

\* PpuBus::set_stat
set_stat(b, value) == write_byte(b, STAT_ADDR, value)

\* PpuBus::update_stat: `self.stat().set(flags, enabled)` changes a temporary copy
\* of the flags and stores nothing
update_stat(b, flags, enabled) == b

\* PpuBus::ly and PpuBus::lyc
ly(b) == read_byte(b, LY_ADDR)
lyc(b) == read_byte(b, LYC_ADDR)

\* PpuBus::set_ly: the store, and whether it ends in `todo!()`
set_ly(b, value) ==
    [bus |-> update_stat(write_byte(b, LY_ADDR, value), STAT_LYC_EQUAL, value = lyc(b)),
     todo |-> value = lyc(b)]

\* bus.request_interrupt(..), which ppu_bus.rs does not define: the bit is set in IF
request_interrupt(b, which) == set_interrupt_flag(b, which)

\* bus.read_oam(..), which ppu_bus.rs does not define: the OAM byte at the offset
read_oam(b, offset) == read_byte(b, OAM_BASE + offset)

\* Ppu::read_ppu_mode
read_ppu_mode(b) == <<"HBlank", "VBlank", "OAMScan", "PixelTransfer">>[(stat(b) % 4) + 1]

\* `mode as u8`
mode_number(mode) ==
    CASE mode = "HBlank" -> 0
      [] mode = "VBlank" -> 1
      [] mode = "OAMScan" -> 2
      [] mode = "PixelTransfer" -> 3

\* Ppu::write_ppu_mode
write_ppu_mode(b, mode) ==
    update_stat(update_stat(b, STAT_MODE_BIT_1, (mode_number(mode) \div 2) % 2 > 0),
                STAT_MODE_BIT_0, mode_number(mode) % 2 > 0)

\* the outcome of a handler: `ovf` says that `ly + 1` overflowed a u8, and `at` is the
\* state at that addition, where a build with overflow checks panics
PpuOk(p, b) ==
    [ppu |-> p, bus |-> b, panic |-> "none", ovf |-> FALSE,
     at |-> [ppu |-> p, bus |-> b], scanned |-> FALSE]

PpuPanicked(p, b, why) == [PpuOk(p, b) EXCEPT !.panic = why]

\* the STAT interrupt request that ends a handler, taken when `select` is set in STAT
stat_interrupt(b, select) ==
    IF contains(stat(b), select) THEN request_interrupt(b, LCD_STAT) ELSE b

\* handle_mode0 after `set_ly(line)` stored `line` and returned
mode0_after_line(p, b, line_no) ==
    IF line_no = 144
    THEN PpuOk(p, request_interrupt(
                      set_stat(write_ppu_mode(b, "VBlank"), STAT_VBLANK_INTERRUPT), VBLANK))
    ELSE PpuOk(p, stat_interrupt(write_ppu_mode(b, "OAMScan"), STAT_OAM_INTERRUPT))

\* handle_mode0 from `let line = bus.ly() + 1`, with the sum wrapped to a u8
mode0_line(p, b, line_no) ==
    IF set_ly(b, line_no).todo THEN PpuPanicked(p, set_ly(b, line_no).bus, "todo")
    ELSE mode0_after_line(p, set_ly(b, line_no).bus, line_no)

\* Ppu::handle_mode0
handle_mode0(p, b) ==
    IF p.mode_clock < 204 THEN PpuOk(p, b)
    ELSE [mode0_line([p EXCEPT !.mode_clock = 0], b, (ly(b) + 1) % 256)
            EXCEPT !.ovf = ly(b) = 255,
                   !.at = [ppu |-> [p EXCEPT !.mode_clock = 0], bus |-> b]]

\* handle_mode1 at line 154: set_ly(0) and the return to OAM scan
mode1_frame_end(p, b) ==
    IF set_ly(b, 0).todo THEN PpuPanicked(p, set_ly(b, 0).bus, "todo")
    ELSE PpuOk(p, stat_interrupt(write_ppu_mode(set_ly(b, 0).bus, "OAMScan"),
                                 STAT_OAM_INTERRUPT))

\* handle_mode1 from `let line = bus.ly() + 1`, with the sum wrapped to a u8
mode1_line(p, b, line_no) ==
    IF set_ly(b, line_no).todo THEN PpuPanicked(p, set_ly(b, line_no).bus, "todo")
    ELSE IF line_no = 154 THEN mode1_frame_end(p, set_ly(b, line_no).bus)
    ELSE PpuOk(p, set_ly(b, line_no).bus)

\* Ppu::handle_mode1
handle_mode1(p, b) ==
    IF p.mode_clock < 456 THEN PpuOk(p, b)
    ELSE [mode1_line([p EXCEPT !.mode_clock = 0], b, (ly(b) + 1) % 256)
            EXCEPT !.ovf = ly(b) = 255,
                   !.at = [ppu |-> [p EXCEPT !.mode_clock = 0], bus |-> b]]

\* the sprite height handle_mode2 reads from LCDC
sprite_height(b) == IF contains(lcdc(b), LCDC_OBJ_SIZE) THEN 16 ELSE 8

\* handle_mode2's visibility test: sprite_line = current_line - (sprite_y - 16)
sprite_visible(b, sprite_idx) ==
    /\ ly(b) - (read_oam(b, sprite_idx * 4) - 16) >= 0
    /\ ly(b) - (read_oam(b, sprite_idx * 4) - 16) < sprite_height(b)

\* the tuple handle_mode2 pushes for a visible sprite
sprite_entry(b, sprite_idx) ==
    <<sprite_idx, read_oam(b, sprite_idx * 4 + 1), read_oam(b, sprite_idx * 4 + 2),
      read_oam(b, sprite_idx * 4 + 3)>>

\* handle_mode2's loop with the `break` at 10 removed
RECURSIVE oam_scan_unbounded(_, _, _)
oam_scan_unbounded(b, sprite_idx, visible_sprites) ==
    IF sprite_idx = 40 THEN visible_sprites
    ELSE IF ~sprite_visible(b, sprite_idx)
    THEN oam_scan_unbounded(b, sprite_idx + 1, visible_sprites)
    ELSE oam_scan_unbounded(b, sprite_idx + 1,
                            Append(visible_sprites, sprite_entry(b, sprite_idx)))

\* handle_mode2's loop over the 40 OAM entries, from `sprite_idx` on
RECURSIVE oam_scan(_, _, _)
oam_scan(b, sprite_idx, visible_sprites) ==
    IF sprite_idx = 40 THEN visible_sprites
    ELSE IF ~sprite_visible(b, sprite_idx) THEN oam_scan(b, sprite_idx + 1, visible_sprites)
    ELSE IF Len(visible_sprites) + 1 >= 10
    THEN Append(visible_sprites, sprite_entry(b, sprite_idx))
    ELSE oam_scan(b, sprite_idx + 1, Append(visible_sprites, sprite_entry(b, sprite_idx)))

\* one insertion of the stable sort: `e` goes after every entry whose x is not larger
RECURSIVE insert_by_x(_, _)
insert_by_x(sorted, e) ==
    IF sorted = <<>> THEN <<e>>
    ELSE IF sorted[Len(sorted)][2] <= e[2] THEN Append(sorted, e)
    ELSE Append(insert_by_x(SubSeq(sorted, 1, Len(sorted) - 1), e), sorted[Len(sorted)])

\* visible_sprites.sort_by_key(|&(_, x, _, _)| x): a stable sort on x
RECURSIVE sort_by_key_x(_)
sort_by_key_x(sprites) ==
    IF sprites = <<>> THEN <<>>
    ELSE insert_by_x(sort_by_key_x(SubSeq(sprites, 1, Len(sprites) - 1)),
                     sprites[Len(sprites)])

\* Ppu::handle_mode2
handle_mode2(p, b) ==
    IF p.mode_clock < 80 THEN PpuOk(p, b)
    ELSE [PpuOk([p EXCEPT !.mode_clock = 0,
                          !.current_line_sprites = sort_by_key_x(oam_scan(b, 0, <<>>))],
                stat_interrupt(write_ppu_mode(write_ppu_mode(b, "PixelTransfer"),
                                              "PixelTransfer"),
                               STAT_OAM_INTERRUPT))
            EXCEPT !.scanned = TRUE]

\* Ppu::render_scanline with the window layer off: the row of frame_buffer at
\* line * 160 is stored to when the background is off, and lies past the buffer's end
\* from line 144 on
render_scanline_panics(b, line_no) ==
    ~contains(lcdc(b), LCDC_BG_WINDOW_ENABLE) /\ line_no >= 144

\* Ppu::handle_mode3
handle_mode3(p, b) ==
    IF p.mode_clock < 172 THEN PpuOk(p, b)
    ELSE IF contains(lcdc(b), LCDC_ENABLE) /\ render_scanline_panics(b, ly(b))
    THEN PpuPanicked([p EXCEPT !.mode_clock = 0], b, "index out of bounds")
    ELSE PpuOk([p EXCEPT !.mode_clock = 0],
               stat_interrupt(write_ppu_mode(b, "HBlank"), STAT_HBLANK_INTERRUPT))

\* the `match self.mode` of Ppu::update
ppu_dispatch(p, b) ==
    CASE p.mode = "HBlank" -> handle_mode0(p, b)
      [] p.mode = "VBlank" -> handle_mode1(p, b)
      [] p.mode = "OAMScan" -> handle_mode2(p, b)
      [] p.mode = "PixelTransfer" -> handle_mode3(p, b)

\* one handler's outcome `h` after the outcome `o` of the cycles before it
ppu_after(o, h) ==
    [h EXCEPT !.ovf = o.ovf \/ h.ovf,
              !.at = IF o.ovf THEN o.at ELSE h.at,
              !.scanned = o.scanned \/ h.scanned]

\* the cycles a mode lasts: the early return of its handler is taken below it
mode_period(mode) ==
    CASE mode = "HBlank" -> 204
      [] mode = "VBlank" -> 456
      [] mode = "OAMScan" -> 80
      [] mode = "PixelTransfer" -> 172

\* one pass of the loop of Ppu::update, with `p` the PPU after
\* `self.mode_clock += 1; self.mode = self.read_ppu_mode(bus)`: a handler that takes
\* its early return leaves everything else as it was
ppu_cycle_from(o, p) ==
    IF p.mode_clock < mode_period(p.mode) THEN [o EXCEPT !.ppu = p]
    ELSE ppu_after(o, ppu_dispatch(p, o.bus))

\* one pass of the loop of Ppu::update
ppu_cycle(o) ==
    ppu_cycle_from(o, [o.ppu EXCEPT !.mode_clock = @ + 1, !.mode = read_ppu_mode(o.bus)])

\* `for _ in 0..cycles` of Ppu::update; a panic ends it.  The passes are run as two
\* halves, one after the other, which keeps the evaluation shallow
RECURSIVE ppu_cycles(_, _)
ppu_cycles(o, cycles) ==
    IF cycles = 0 \/ o.panic # "none" THEN o
    ELSE IF cycles = 1 THEN ppu_cycle(o)
    ELSE ppu_cycles(ppu_cycles(o, cycles \div 2), cycles - cycles \div 2)

\* Ppu::update
ppu_update(p, b, cycles) ==
    IF ~contains(lcdc(b), LCDC_ENABLE)
    THEN PpuOk([p EXCEPT !.mode_clock = @ + cycles], b)
    ELSE ppu_cycles(PpuOk(p, b), cycles)

(***************************************************************************)
(* machine.rs: Machine::use_boot_rom and Machine::reset, with the reset    *)
(* of each part.                                                           *)
(***************************************************************************)
P1JOYP_ADDR == \hFF00
SCY_ADDR == \hFF42
SCX_ADDR == \hFF43
BGP_ADDR == \hFF47
OBP0_ADDR == \hFF48
OBP1_ADDR == \hFF49
WY_ADDR == \hFF4A
WX_ADDR == \hFF4B
BOOT_OFF_ADDR == \hFF50

\* P1JOYP::all(): the two select bits and the four key bits
P1JoypAll == \h3F

\* MemorySystem::load_boot_rom reading the 256 bytes `image` from roms/dmg.bin
load_boot_rom(b, image) ==
    [b EXCEPT !.boot_rom_enabled = TRUE, !.boot_rom_loaded = TRUE, !.boot_rom = image]

\* MemorySystem::reset
bus_reset(b) == [b EXCEPT !.vram = EmptyArr, !.boot_rom_enabled = b.boot_rom_loaded]

\* Cpu::reset followed by the `if let Some(addr) = self.start_addr` of Machine::reset
cpu_reset(m) ==
    IF m.start_addr # NoAddr THEN [CpuDefault EXCEPT !.pc = m.start_addr] ELSE CpuDefault

\* Timer::reset: the stores to the bus
timer_reset(b) == set_tac_u8(set_tma(set_tima(set_div(b, \hD3), \h00), \h00), \hF8)

\* Ppu::reset: the fields of the Ppu
ppu_reset_fields(p) == [p EXCEPT !.mode = "HBlank", !.mode_clock = 0,
                                 !.current_line_sprites = <<>>]

\* Ppu::reset after `bus.set_ly(0)` returned: update_stat, the scroll and window
\* registers, the palettes
ppu_reset_rest(b) ==
    LET b1 == update_stat(b, StatAll, FALSE)
        b2 == write_byte(write_byte(b1, SCY_ADDR, 0), SCX_ADDR, 0)
        b3 == write_byte(write_byte(b2, WY_ADDR, 0), WX_ADDR, 0)
    IN  write_byte(write_byte(write_byte(b3, BGP_ADDR, \hFC), OBP0_ADDR, \hFF),
                   OBP1_ADDR, \hFF)

\* Joypad::reset: the value of `joyp`
joypad_reset_joyp(b) == BitOr(BitAnd(read_byte(b, P1JOYP_ADDR), P1JoypAll), \h0F)

\* Joypad::reset: the fields of the Joypad
joypad_reset_fields(j, b) ==
    [buttons |-> BitOr(j.buttons, P1JoypAll), d_pad |-> BitOr(j.d_pad, P1JoypAll),
     prev |-> joypad_reset_joyp(b)]

\* Joypad::reset: set_p1joyp(joyp), which stores the register's byte | joyp
joypad_reset_bus(b) ==
    write_byte(b, P1JOYP_ADDR, BitOr(read_byte(b, P1JOYP_ADDR), joypad_reset_joyp(b)))

\* Machine::reset from `self.joypad.reset` on
machine_reset_rest(c, b, t, p, m) ==
    [cpu |-> c,
     bus |-> set_interrupt_flag_u8(set_interrupt_enable_u8(joypad_reset_bus(b), \h00), \hE1),
     timer |-> t, ppu |-> p,
     machine |-> [m EXCEPT !.joypad = joypad_reset_fields(@, b)],
     panic |-> "none"]

\* Machine::reset from `self.ppu.reset` on; `bus.set_ly(0)` ends in todo!() when LYC is 0
machine_reset_ppu(c, b, t, p, m) ==
    IF set_ly(b, 0).todo
    THEN [cpu |-> c, bus |-> set_ly(b, 0).bus, timer |-> t, ppu |-> ppu_reset_fields(p),
          machine |-> m, panic |-> "todo"]
    ELSE machine_reset_rest(c, ppu_reset_rest(set_ly(b, 0).bus), t, ppu_reset_fields(p), m)

\* Machine::reset
machine_reset(c, b, t, p, m) ==
    machine_reset_ppu(cpu_reset(m), timer_reset(bus_reset(b)), TimerDefault, p, m)

(***************************************************************************)
(* The timer stepped on the memory bus, with the CPU's writes to DIV and   *)
(* TAC between its steps.                                                  *)
(***************************************************************************)
\* bound: machine cycles advanced through Timer::step in one behaviour
MaxTimerCycles == 300

\* the cycle counts Cpu::step hands to Timer::step
TimerCycles == {4, 24}

\* the bytes the CPU writes to DIV
DivWrites == {\h00, \h5A}

\* the byte the CPU writes to TAC: enabled at 4 cycles per tick (TAC starts at 0)
TacWrites == {\h05}

InitTimer ==
    /\ cpu = CpuDefault
    /\ bus = MemorySystemDefault
    /\ timer = TimerDefault
    /\ ppu = PpuDefault
    /\ machine = MachineDefault
    /\ build = "any"
    /\ ret = NoRet
    /\ last = NoCall
    /\ ghost = [total |-> 0, div_written |-> FALSE, since_write |-> 0]

\* Timer::step(&mut bus, cycles)
TimerStep ==
    /\ \E cycles \in TimerCycles :
          /\ ghost.total + cycles <= MaxTimerCycles
          /\ \E out \in {timer_step(timer, bus, cycles)} :
                /\ timer' = out.timer
                /\ bus' = out.bus
          /\ last' = [op |-> "timer_step", cycles |-> cycles, div |-> div(bus)]
          /\ ghost' = [ghost EXCEPT !.total = @ + cycles, !.since_write = @ + cycles]
    /\ UNCHANGED <<machine, cpu, ppu, build, ret>>

\* the CPU stores a byte to 0xFF04: MemorySystem::write_byte
WriteDiv ==
    /\ \E value \in DivWrites :
          /\ bus' = write_byte(bus, DIV_ADDR, value)
          /\ last' = [op |-> "write_div", value |-> value, div |-> div(bus)]
    /\ ghost' = [ghost EXCEPT !.div_written = TRUE, !.since_write = 0]
    /\ UNCHANGED <<machine, cpu, timer, ppu, build, ret>>

\* the CPU stores a byte to 0xFF07, before the timer is first stepped
WriteTac ==
    /\ ghost.total = 0
    /\ \E value \in TacWrites :
          /\ read_byte(bus, TAC_ADDR) # value
          /\ bus' = write_byte(bus, TAC_ADDR, value)
          /\ last' = [op |-> "write_tac", value |-> value, div |-> div(bus)]
    /\ UNCHANGED <<machine, cpu, timer, ppu, build, ret, ghost>>

NextTimer == TimerStep \/ WriteDiv \/ WriteTac

SpecTimer == InitTimer /\ [][NextTimer]_vars

\* C6: after a CPU write to 0xFF04, DIV reads 0 while fewer than 256 cycles of
\* timer advance have followed the write, and reads 1 once the 256th cycle has been
\* advanced (and until the 512th)
C6_DivRestartsAtWrite ==
    ghost.div_written =>
        /\ ghost.since_write < 256 => div(bus) = 0
        /\ (ghost.since_write >= 256 /\ ghost.since_write < 512) => div(bus) = 1

\* C7: with no CPU write to 0xFF04, the byte at 0xFF04 is the number of times 256
\* cycles have been accumulated over the timer's steps, modulo 256
C7_DivCountsCycles ==
    ~ghost.div_written => div(bus) = (ghost.total \div 256) % 256

(***************************************************************************)
(* The PPU advanced on the memory bus.  The CPU sets the PPU's registers   *)
(* up, and copies the cartridge's sprite table to OAM by a DMA from page   *)
(* 0, before the PPU is first advanced.                                    *)
(***************************************************************************)
\* bound: the line from which the PPU is advanced no further
MaxLine == 156

\* bound: the value mode_clock is let grow to while the LCD is off
MaxIdleClock == 204

\* the cycle counts handed to Ppu::update: half an H-Blank period and a whole one.
\* Ppu::update advances cycle by cycle, so one update of n cycles leaves the state
\* that machine steps adding up to n cycles leave when the CPU stores nothing to
\* the PPU's registers in between
PpuCycles == {102, 204}

\* the sprite table of the cartridge, by y byte: entries 0..11 have 17 (lines 1..8 when
\* 8 high), entries 12..14 have 16 (lines 0..7), entries 15 and 16 have 8 (lines 0..7,
\* and only when 16 high), entry 17 has 9 (line 0, and lines 1..8 when 16 high); x falls
\* as the index rises; the other entries are 0
SpriteByte(i) ==
    CASE i % 4 = 0 -> (CASE i \div 4 <= 11 -> 17
                         [] i \div 4 >= 12 /\ i \div 4 <= 14 -> 16
                         [] i \div 4 >= 15 /\ i \div 4 <= 16 -> 8
                         [] i \div 4 = 17 -> 9
                         [] OTHER -> 0)
      [] i % 4 = 1 -> IF i \div 4 <= 17 THEN 48 - (i \div 4) ELSE 0
      [] i % 4 = 2 -> IF i \div 4 <= 17 THEN i \div 4 ELSE 0
      [] i % 4 = 3 -> 0

\* the cartridge image that holds the table: the bytes that are not 0
SpriteTable ==
    EmptyArr @@ [i \in {j \in 0..159 : SpriteByte(j) # 0} |-> SpriteByte(i)]

\* the stores of the CPU: LCD on with 8 and 16 line sprites, the three non-zero mode
\* numbers into STAT, line 1 into LY, and a DMA from page 0
PpuWrites ==
    {<<LCDC_ADDR, \h80>>, <<LCDC_ADDR, \h84>>,
     <<STAT_ADDR, \h01>>, <<STAT_ADDR, \h02>>, <<STAT_ADDR, \h03>>,
     <<LY_ADDR, \h01>>,
     <<DMA_ADDR, \h00>>}

InitPpu ==
    /\ cpu = CpuDefault
    /\ bus = [MemorySystemDefault EXCEPT !.cartridge = LoadedCartridge(SpriteTable)]
    /\ timer = TimerDefault
    /\ ppu = PpuDefault
    /\ machine = MachineDefault
    /\ build = "any"
    /\ ret = NoRet
    /\ last = NoCall
    /\ ghost = [updated |-> FALSE]

\* Ppu::update(&mut bus, cycles)
PpuUpdate ==
    /\ Running
    /\ ly(bus) < MaxLine
    /\ \E cycles \in PpuCycles :
          /\ contains(lcdc(bus), LCDC_ENABLE) \/ ppu.mode_clock + cycles <= MaxIdleClock
          /\ \E out \in {ppu_update(ppu, bus, cycles)} :
             \E bld \in Builds(out) :
             \E overflowed \in {out.ovf /\ bld = "debug"} :
                /\ build' = bld
                /\ ppu' = IF overflowed THEN out.at.ppu ELSE out.ppu
                /\ bus' = IF overflowed THEN out.at.bus ELSE out.bus
                /\ ret' = IF overflowed \/ out.panic # "none"
                          THEN [kind |-> "panic", value |-> 0]
                          ELSE [kind |-> "Ok", value |-> 0]
                /\ last' = [op |-> "update", scanned |-> out.scanned /\ ~overflowed]
    /\ ghost' = [ghost EXCEPT !.updated = TRUE]
    /\ UNCHANGED <<machine, cpu, timer>>

\* a store of the CPU to a PPU register: MemorySystem::write_byte
PpuWrite ==
    /\ ~ghost.updated
    /\ \E w \in PpuWrites :
       \E written \in {write_byte(bus, w[1], w[2])} :
          /\ written # bus
          /\ bus' = written
          /\ last' = [op |-> "write", address |-> w[1], value |-> w[2]]
    /\ UNCHANGED <<machine, cpu, timer, ppu, build, ret, ghost>>

NextPpu == PpuUpdate \/ PpuWrite

SpecPpu == InitPpu /\ [][NextPpu]_vars

\* C8: after every update of the PPU, with the LCD on or off, the byte read at 0xFF44
\* is in 0..153
C8_LyInRange == last.op = "update" => ly(bus) <= 153

\* the OAM entries whose y range covers LY: y = byte 0 - 16, y <= LY < y + height
Covering(b) ==
    {i \in 0..39 : /\ read_byte(b, OAM_BASE + 4 * i) - 16 <= ly(b)
                   /\ ly(b) < read_byte(b, OAM_BASE + 4 * i) - 16
                              + (IF contains(lcdc(b), LCDC_OBJ_SIZE) THEN 16 ELSE 8)}

\* the first ten, by OAM index, of a set of entries
FirstTen(entries) == {i \in entries : Cardinality({j \in entries : j < i}) < 10}

\* the OAM indices of the sprites selected for the current scanline
Selected == {ppu.current_line_sprites[k][1] : k \in 1..Len(ppu.current_line_sprites)}

\* C9 as stated: after every step the sprites selected for the current scanline are
\* at most 10, and are the first up-to-10 OAM entries whose y range covers LY
C9_SelectedCoverLy ==
    last.op = "update" =>
        /\ Len(ppu.current_line_sprites) <= 10
        /\ Selected = FirstTen(Covering(bus))

\* C9 amended: the selected sprites are at most 10 after every step, and after an
\* update that completed an OAM scan they are the first up-to-10 OAM entries whose y
\* range covers LY, each selected once
C9_ScanSelectsFirstTen ==
    /\ Len(ppu.current_line_sprites) <= 10
    /\ (last.op = "update" /\ last.scanned) =>
          /\ Selected = FirstTen(Covering(bus))
          /\ Cardinality(Selected) = Len(ppu.current_line_sprites)

\* an OAM scan on a line below the first that kept ten of more than ten covering sprites
C9_Witness ==
    /\ last.op = "update" /\ last.scanned
    /\ ly(bus) >= 1
    /\ Len(ppu.current_line_sprites) = 10
    /\ Cardinality(Covering(bus)) > 10

(***************************************************************************)
(* The memory bus alone: stores to work RAM, to its echo, and next to them.*)
(***************************************************************************)
\* the addresses stored to: the first and the last work RAM byte that has an echo,
\* their echoes, the first work RAM byte without an echo, and the first OAM byte
BusAddresses == {\hC000, \hDDFF, \hDE00, \hE000, \hFDFF, \hFE00}

\* the bytes stored
BusBytes == {\h00, \h55, \hAA}

InitBus ==
    /\ cpu = CpuDefault
    /\ bus = MemorySystemDefault
    /\ timer = TimerDefault
    /\ ppu = PpuDefault
    /\ machine = MachineDefault
    /\ build = "any"
    /\ ret = NoRet
    /\ last = NoCall
    /\ ghost = [writes |-> 0]

\* MemorySystem::write_byte(address, byte)
BusWrite ==
    /\ \E address \in BusAddresses, byte \in BusBytes :
          /\ bus' = write_byte(bus, address, byte)
          /\ last' = [op |-> "write", address |-> address, byte |-> byte]
    /\ UNCHANGED <<machine, cpu, timer, ppu, build, ret, ghost>>

NextBus == BusWrite

SpecBus == InitBus /\ [][NextBus]_vars

\* the offsets of the echo: 0xE000 + i is in 0xE000..0xFDFF
EchoOffsets == 0..\h1DFF

\* C10: after any sequence of bus writes, read_byte(0xE000 + i) = read_byte(0xC000 + i)
\* for every i in 0..0x1DFF, and a byte written through either address of such a pair
\* is read back through both
C10_EchoAliasesWram ==
    /\ \A i \in EchoOffsets : read_byte(bus, \hE000 + i) = read_byte(bus, \hC000 + i)
    /\ \A i \in EchoOffsets :
          (last.op = "write" /\ last.address \in {\hC000 + i, \hE000 + i}) =>
              /\ read_byte(bus, \hC000 + i) = last.byte
              /\ read_byte(bus, \hE000 + i) = last.byte

\* a non-zero byte written through an echo address, at the end of the echo, over a
\* different non-zero byte, with the first work RAM byte holding a byte as well
C10_Witness ==
    /\ last.op = "write" /\ last.address = \hFDFF /\ last.byte = \hAA
    /\ read_byte(bus, \hDDFF) = \hAA
    /\ read_byte(bus, \hE000) = \h55

(***************************************************************************)
(* A 128-bank MBC1 cartridge on the memory bus: stores to the mapper's     *)
(* registers, and Machine::reset.                                          *)
(***************************************************************************)
\* the image of the cartridge: type MBC1, 128 ROM banks, 4 RAM banks, and the first
\* and the last byte of every bank but bank 0 holding the bank's number
Mbc1Image ==
    (HEADER_TYPE :> \h01) @@ (HEADER_ROM_SIZE :> \h06) @@ (HEADER_RAM_SIZE :> \h03)
    @@ [i \in {k * ROM_BANK_SIZE + o : k \in 1..127, o \in {0, ROM_BANK_SIZE - 1}}
           |-> i \div ROM_BANK_SIZE]

\* the stores of the CPU: RAM enable, the low five bits, the high two bits, the
\* banking mode, and a line number into LYC
Mbc1Writes ==
    {<<\h0000, \h0A>>, <<\h1FFF, \h00>>,
     <<\h2000, \h00>>, <<\h2000, \h01>>, <<\h3FFF, \hE0>>, <<\h2000, \h3F>>,
     <<\h4000, \h00>>, <<\h4000, \h01>>, <<\h5FFF, \h02>>, <<\h4000, \hFF>>,
     <<\h6000, \h00>>, <<\h7FFF, \h01>>,
     <<LYC_ADDR, \h05>>}

InitMbc1 ==
    /\ cpu = CpuDefault
    /\ bus = [MemorySystemDefault EXCEPT !.cartridge = LoadedMbc1Cartridge(Mbc1Image)]
    /\ timer = TimerDefault
    /\ ppu = PpuDefault
    /\ machine = MachineDefault
    /\ build = "any"
    /\ ret = NoRet
    /\ last = NoCall
    /\ ghost = [resets |-> 0]

\* a store of the CPU: MemorySystem::write_byte
Mbc1Write ==
    /\ Running
    /\ \E w \in Mbc1Writes :
          /\ bus' = write_byte(bus, w[1], w[2])
          /\ last' = [op |-> "write", address |-> w[1], byte |-> w[2]]
    /\ UNCHANGED <<cpu, timer, ppu, machine, build, ret, ghost>>

\* Machine::reset()
Mbc1Reset ==
    /\ Running
    /\ \E out \in {machine_reset(cpu, bus, timer, ppu, machine)} :
          /\ cpu' = out.cpu
          /\ bus' = out.bus
          /\ timer' = out.timer
          /\ ppu' = out.ppu
          /\ machine' = out.machine
          /\ ret' = IF out.panic # "none" THEN [kind |-> "panic", value |-> 0]
                    ELSE [kind |-> "Ok", value |-> 0]
    /\ last' = [op |-> "reset"]
    /\ ghost' = [ghost EXCEPT !.resets = 1]
    /\ UNCHANGED build

NextMbc1 == Mbc1Write \/ Mbc1Reset

SpecMbc1 == InitMbc1 /\ [][NextMbc1]_vars

\* the bank register the mapper's stores select: the high two bits and the low five
SelectedRomBank == BitAnd(bus.cartridge.mbc1.rom_bank, \h7F)

\* C11: on the 128-bank cartridge, after any stores to the mapper's registers, a read
\* at either end of 0x4000..0x7FFF returns no byte of bank 0x00, 0x20, 0x40 or 0x60,
\* and when the low five bits of the selected bank are 0 it returns the byte of the
\* bank with the same high bits and low five bits 1
C11_WindowSkipsBankZero ==
    /\ read_byte(bus, \h4000) \notin {\h00, \h20, \h40, \h60}
    /\ read_byte(bus, \h7FFF) \notin {\h00, \h20, \h40, \h60}
    /\ rom_4000_index(bus.cartridge.mbc1, \h4000) \div ROM_BANK_SIZE
           \notin {\h00, \h20, \h40, \h60}
    /\ BitAnd(SelectedRomBank, \h1F) = 0 =>
          /\ read_byte(bus, \h4000) = BitAnd(SelectedRomBank, \h60) + 1
          /\ read_byte(bus, \h7FFF) = BitAnd(SelectedRomBank, \h60) + 1

\* bank 0x60 selected in banking mode 1, and the window reading bank 0x61
C11_Witness ==
    /\ last.op = "write"
    /\ SelectedRomBank = \h60
    /\ bus.cartridge.mbc1.mode_ram_banking
    /\ read_byte(bus, \h4000) = \h61
    /\ read_byte(bus, \h0000) = \h60

\* C19: after Machine::reset() the mapper holds rom_bank = 1, ram_bank = 0, RAM
\* disabled and banking mode 0, whatever was stored to its registers before
C19_ResetRestoresMapper ==
    (last.op = "reset" /\ ret.kind = "Ok") =>
        /\ bus.cartridge.mbc1.rom_bank = 1
        /\ bus.cartridge.mbc1.ram_bank = 0
        /\ ~bus.cartridge.mbc1.ram_enabled
        /\ ~bus.cartridge.mbc1.mode_ram_banking

(***************************************************************************)
(* POP and PUSH of one register pair, in both orders, executed by Cpu::step *)
(* from a cartridge image that holds the two instructions at 0x0100.       *)
(***************************************************************************)
\* the register pairs of rp2, with the opcodes of their POP and PUSH
StackPairs == {"BC", "DE", "HL", "AF"}

pop_opcode(pair) ==
    CASE pair = "BC" -> \hC1 [] pair = "DE" -> \hD1 [] pair = "HL" -> \hE1 [] pair = "AF" -> \hF1

push_opcode(pair) ==
    CASE pair = "BC" -> \hC5 [] pair = "DE" -> \hD5 [] pair = "HL" -> \hE5 [] pair = "AF" -> \hF5

\* the words on top of the stack, or in the register pair that is pushed
StackWords == {\h0000, \h1234, \h80F0, \h010F, \hFFFF}

\* the stack pointers: in video RAM, in work RAM, across the two work RAM arrays, at
\* the last work RAM byte with the echo above it, in high RAM, and the reset value
StackPointers == {\h8002, \hC100, \hCFFF, \hD000, \hDFFF, \hFF90, \hFFFC, \hFFFE}

\* the image that holds two instructions of one byte at the entry point
TwoInstructions(first, second) ==
    [i \in {\h0100, \h0101} |-> IF i = \h0100 THEN first ELSE second]

\* the value of a register pair
pair_value(c, pair) == read_operand_value_u16(c, <<>>, pair)

InitStack ==
    /\ \E pair \in StackPairs, word \in StackWords, sp \in StackPointers,
          order \in {"pop_push", "push_pop"} :
          /\ cpu = IF order = "push_pop"
                   THEN write_to_operand_u16([CpuDefault EXCEPT !.sp = sp], pair, word)
                   ELSE [CpuDefault EXCEPT !.sp = sp]
          /\ bus = LET loaded == [MemorySystemDefault EXCEPT !.cartridge =
                                     LoadedCartridge(
                                        IF order = "pop_push"
                                        THEN TwoInstructions(pop_opcode(pair), push_opcode(pair))
                                        ELSE TwoInstructions(push_opcode(pair), pop_opcode(pair)))]
                 IN  IF order = "pop_push" THEN write_word(loaded, sp, word) ELSE loaded
          /\ ghost = [steps |-> 0, requests |-> 0, after_ei |-> FALSE,
                      pair |-> pair, word |-> word, sp |-> sp, order |-> order]
    /\ timer = TimerDefault
    /\ ppu = PpuDefault
    /\ machine = MachineDefault
    /\ build = "any"
    /\ ret = NoRet
    /\ last = NoCall

\* the two calls of Cpu::step
StackStep == ghost.steps < 2 /\ Step

NextStack == StackStep

SpecStack == InitStack /\ [][NextStack]_vars

\* C12: POP rp2 then PUSH rp2 leaves the word on top of the stack and SP as they were,
\* with the word in the pair; PUSH rp2 then POP rp2 returns the word pushed and restores
\* SP, which is 2 lower in between with the word at it
C12_PopPushRoundTrip ==
    /\ (ghost.order = "pop_push" /\ ghost.steps = 1) =>
          /\ ret.kind = "Ok"
          /\ pair_value(cpu, ghost.pair) = ghost.word
          /\ cpu.sp = (ghost.sp + 2) % 65536
    /\ (ghost.order = "pop_push" /\ ghost.steps = 2) =>
          /\ ret.kind = "Ok"
          /\ cpu.sp = ghost.sp
          /\ read_word(bus, cpu.sp) = ghost.word
          /\ pair_value(cpu, ghost.pair) = ghost.word
    /\ (ghost.order = "push_pop" /\ ghost.steps = 1) =>
          /\ ret.kind = "Ok"
          /\ cpu.sp = (ghost.sp + 65534) % 65536
          /\ read_word(bus, cpu.sp) = ghost.word
    /\ (ghost.order = "push_pop" /\ ghost.steps = 2) =>
          /\ ret.kind = "Ok"
          /\ cpu.sp = ghost.sp
          /\ pair_value(cpu, ghost.pair) = ghost.word

\* AF popped and pushed back over a word whose low byte has its low four bits set, on a
\* stack that lies across the two work RAM arrays
C12_Witness ==
    /\ ghost.order = "pop_push" /\ ghost.steps = 2
    /\ ghost.pair = "AF" /\ ghost.word = \h010F /\ ghost.sp = \hCFFF
    /\ last.op = "step" /\ last.opcode = \hF5
    /\ read_byte(bus, \hCFFF) = \h0F /\ read_byte(bus, \hD000) = \h01

(***************************************************************************)
(* ADD A, n followed by SUB n, executed by Cpu::step from a cartridge      *)
(* image that holds the two instructions at 0x0100, for every A and n.     *)
(***************************************************************************)
\* the values of A and of the immediate byte: every u8
AluBytes == 0..255

\* ADD A, n and SUB n
ADD_A_N == \hC6
SUB_N == \hD6

\* the image that holds ADD A, n; SUB n at the entry point
AddSubImage(n) ==
    (\h0100 :> ADD_A_N) @@ (\h0102 :> SUB_N) @@
    (IF n = 0 THEN EmptyArr ELSE (\h0101 :> n) @@ (\h0103 :> n))

InitAlu ==
    /\ \E a0 \in AluBytes, n \in AluBytes :
          /\ cpu = set_a(CpuDefault, a0)
          /\ bus = [MemorySystemDefault EXCEPT !.cartridge = LoadedCartridge(AddSubImage(n))]
          /\ ghost = [steps |-> 0, a |-> a0, n |-> n]
    /\ timer = TimerDefault
    /\ ppu = PpuDefault
    /\ machine = MachineDefault
    /\ build = "any"
    /\ ret = NoRet
    /\ last = NoCall

\* Cpu::step on an image that is fixed: the first two calls
AluStep ==
    /\ Running
    /\ ghost.steps < 2
    /\ \E out \in {cpu_step(cpu, bus)} :
          /\ cpu' = out.cpu
          /\ bus' = out.bus
          /\ ret' = step_ret(out, build)
          /\ last' = [op |-> "step", opcode |-> read_byte(bus, cpu.pc)]
    /\ ghost' = [ghost EXCEPT !.steps = @ + 1]
    /\ UNCHANGED <<timer, ppu, machine, build>>

NextAlu == AluStep

SpecAlu == InitAlu /\ [][NextAlu]_vars

\* C13: for every a and n, ADD A, n leaves A = (a + n) mod 256 and SUB n after it leaves
\* A = a again
C13_AddThenSubRestoresA ==
    /\ ghost.steps = 1 => (ret.kind = "Ok" /\ a(cpu) = (ghost.a + ghost.n) % 256)
    /\ ghost.steps = 2 => (ret.kind = "Ok" /\ a(cpu) = ghost.a)

\* a sum that wraps, subtracted back: 0xF0 + 0x20 = 0x10, 0x10 - 0x20 = 0xF0
C13_Witness ==
    /\ ghost.steps = 2 /\ ghost.a = \hF0 /\ ghost.n = \h20
    /\ last.opcode = SUB_N
    /\ a(cpu) = \hF0
    /\ cpu.pc = \h0104

(***************************************************************************)
(* The conditional control-flow instructions, executed once each with the  *)
(* condition true and with the condition false (SpecDecode).               *)
(***************************************************************************)
JRccOpcodes == {\h20, \h28, \h30, \h38}
RETccOpcodes == {\hC0, \hC8, \hD0, \hD8}
JPccOpcodes == {\hC2, \hCA, \hD2, \hDA}
CALLccOpcodes == {\hC4, \hCC, \hD4, \hDC}
ConditionalOpcodes == JRccOpcodes \cup RETccOpcodes \cup JPccOpcodes \cup CALLccOpcodes

\* the condition an opcode names, read from bits 3 and 4, on the flags before the call
ConditionHolds(opcode, flags) ==
    LET zero == BitAnd(flags, FlagZ) # 0
        carry == BitAnd(flags, FlagC) # 0
        sel == (opcode \div 8) % 4
    IN  CASE sel = 0 -> ~zero [] sel = 1 -> zero [] sel = 2 -> ~carry [] sel = 3 -> carry

\* the length in bytes of a conditional instruction
ConditionalLength(opcode) ==
    IF opcode \in JRccOpcodes THEN 2 ELSE IF opcode \in RETccOpcodes THEN 1 ELSE 3

\* the 16-bit immediate after the opcode, little-endian
Immediate16(b, pc) == read_byte(b, Wrap16(pc + 1)) + 256 * read_byte(b, Wrap16(pc + 2))

\* a conditional instruction has just been executed by Cpu::step
ConditionalExecuted ==
    /\ last.op = "step" /\ last.fetched
    /\ last.opcode \in ConditionalOpcodes

\* C14: a conditional JR, JP, CALL or RET whose condition holds transfers control and
\* returns the taken cycle count; one whose condition fails returns the not-taken count,
\* leaves PC at the following instruction and leaves SP and memory as they were
C14_ConditionalBranches ==
    ConditionalExecuted =>
        LET op == last.opcode
            pc0 == last.cpu.pc
            sp0 == last.cpu.sp
            next_pc == Wrap16(pc0 + ConditionalLength(op))
            taken == ConditionHolds(op, low(last.cpu.af))
        IN  /\ ret.kind = "Ok"
            /\ cpu.af = last.cpu.af
            /\ ~taken =>
                  /\ ret.value = (IF op \in JRccOpcodes \cup RETccOpcodes THEN 8 ELSE 12)
                  /\ cpu.pc = next_pc
                  /\ cpu.sp = sp0
                  /\ bus = last.bus
            /\ (taken /\ op \in JRccOpcodes) =>
                  /\ ret.value = 12
                  /\ cpu.pc = Wrap16(next_pc + 65536 + AsI8(read_byte(last.bus, Wrap16(pc0 + 1))))
                  /\ cpu.sp = sp0 /\ bus = last.bus
            /\ (taken /\ op \in JPccOpcodes) =>
                  /\ ret.value = 16
                  /\ cpu.pc = Immediate16(last.bus, pc0)
                  /\ cpu.sp = sp0 /\ bus = last.bus
            /\ (taken /\ op \in CALLccOpcodes) =>
                  /\ ret.value = 24
                  /\ cpu.pc = Immediate16(last.bus, pc0)
                  /\ cpu.sp = Wrap16(sp0 + 65536 - 2)
                  /\ read_word(bus, cpu.sp) = next_pc
            /\ (taken /\ op \in RETccOpcodes) =>
                  /\ ret.value = 20
                  /\ cpu.pc = read_word(last.bus, sp0)
                  /\ cpu.sp = Wrap16(sp0 + 2)
                  /\ bus = last.bus
            /\ op = \h20 => ret.value = (IF BitAnd(low(last.cpu.af), FlagZ) = 0 THEN 12 ELSE 8)

\* CALL Z, 0xC002 not taken with Z clear: 12 cycles, PC after the instruction, SP kept
C14_Witness ==
    /\ ConditionalExecuted
    /\ last.opcode = \hCC
    /\ last.cpu.af = \hFF00
    /\ ret = [kind |-> "Ok", value |-> 12]
    /\ cpu.pc = \h0103
    /\ cpu.sp = last.cpu.sp

(***************************************************************************)
(* OAM DMA: stores through the bus, then a write to 0xFF46.                *)
(***************************************************************************)
\* the addresses stored to before a transfer: the start and the end of a source page in
\* work RAM, the end of one in video RAM, the start of OAM, and just past a page's 160 bytes
DmaPokes == {\hC000, \hC001, \hC002, \hC09F, \hC0A0, \h809F, \hFE00}

\* the bytes stored
DmaBytes == {80, 88, 1}

\* the source pages written to 0xFF46: ROM, video RAM, work RAM, OAM itself, I/O
DmaPages == {\h00, \h80, \hC0, \hFE, \hFF}

\* the number of bus writes of a run
MaxDmaWrites == 4

InitDma ==
    /\ cpu = CpuDefault
    /\ bus = MemorySystemDefault
    /\ timer = TimerDefault
    /\ ppu = PpuDefault
    /\ machine = MachineDefault
    /\ build = "any"
    /\ ret = NoRet
    /\ last = NoCall
    /\ ghost = [writes |-> 0]

\* MemorySystem::write_byte(address, byte) to memory
DmaPoke ==
    /\ ghost.writes < MaxDmaWrites
    /\ \E address \in DmaPokes, byte \in DmaBytes :
          /\ bus' = write_byte(bus, address, byte)
          /\ last' = [op |-> "write"]
    /\ ghost' = [ghost EXCEPT !.writes = @ + 1]
    /\ UNCHANGED <<machine, cpu, timer, ppu, build, ret>>

\* MemorySystem::write_byte(0xFF46, page)
DmaStart ==
    /\ ghost.writes < MaxDmaWrites
    /\ \E page \in DmaPages :
          /\ bus' = write_byte(bus, DMA_ADDR, page)
          /\ last' = [op |-> "dma", address |-> DMA_ADDR, byte |-> page, bus |-> bus]
    /\ ghost' = [ghost EXCEPT !.writes = @ + 1]
    /\ UNCHANGED <<machine, cpu, timer, ppu, build, ret>>

NextDma == DmaPoke \/ DmaStart

SpecDma == InitDma /\ [][NextDma]_vars

\* addresses outside OAM that are read back after a transfer: the source pages, the
\* bytes around OAM, the DMA register and its neighbours, high RAM and IE
DmaProbes ==
    (DmaPokes \ {\hFE00}) \cup {\h0000, \h0100, \h8000, \hA000, \hE000, \hFDFF, \hFEA0,
                                \hFF00, \hFF0F, \hFF45, \hFF46, \hFF47, \hFF80, \hFFFF}

\* the parts of the memory system other than OAM
NotOam == DOMAIN bus \ {"oam"}

\* C15: when a write of v to 0xFF46 returns, OAM byte i holds what was read at
\* (v << 8) + i before the write, for every i in 0..0x9F, and nothing else of the
\* memory has changed
C15_DmaCopiesPage ==
    last.op = "dma" =>
        /\ \A i \in 0..\h9F :
              read_byte(bus, \hFE00 + i) = read_byte(last.bus, last.byte * 256 + i)
        /\ \A part \in NotOam : bus[part] = last.bus[part]
        /\ \A address \in DmaProbes : read_byte(bus, address) = read_byte(last.bus, address)

\* 80, 88, 1, 0 at 0xC000..0xC003 and 0xC0 written to 0xFF46: OAM bytes 0..3 read
\* 80, 88, 1, 0
C15_Witness ==
    /\ last.op = "dma" /\ last.byte = \hC0
    /\ <<read_byte(last.bus, \hC000), read_byte(last.bus, \hC001),
         read_byte(last.bus, \hC002), read_byte(last.bus, \hC003)>> = <<80, 88, 1, 0>>
    /\ <<read_byte(last.bus, \hFE00), read_byte(last.bus, \hFE01),
         read_byte(last.bus, \hFE02)>> = <<0, 0, 0>>
    /\ <<read_byte(bus, \hFE00), read_byte(bus, \hFE01),
         read_byte(bus, \hFE02), read_byte(bus, \hFE03)>> = <<80, 88, 1, 0>>

(***************************************************************************)
(* TIMA at its overflow: the CPU stores TAC, TIMA, TMA and IF, then the    *)
(* timer is stepped.                                                       *)
(***************************************************************************)
\* bound: machine cycles advanced through Timer::step in one behaviour
MaxTimaCycles == 40

\* the stores before the timer is first stepped: the timer off, on at 4 and at 16 cycles
\* per tick; TIMA one and no tick from its overflow; a reload value; IF with other bits
\* set, with and without the TIMER bit
TimaSetups ==
    {<<TAC_ADDR, \h05>>, <<TAC_ADDR, \h06>>, <<TAC_ADDR, \h01>>,
     <<TIMA_ADDR, \hFE>>, <<TIMA_ADDR, \hFF>>,
     <<TMA_ADDR, \h42>>,
     <<IF_ADDR, \hE1>>, <<IF_ADDR, \h1F>>}

InitTima ==
    /\ cpu = CpuDefault
    /\ bus = MemorySystemDefault
    /\ timer = TimerDefault
    /\ ppu = PpuDefault
    /\ machine = MachineDefault
    /\ build = "any"
    /\ ret = NoRet
    /\ last = NoCall
    /\ ghost = [total |-> 0]

\* the CPU stores a byte to a timer register or to IF: MemorySystem::write_byte
TimaSetup ==
    /\ ghost.total = 0
    /\ \E setup \in TimaSetups :
          /\ read_byte(bus, setup[1]) = 0
          /\ bus' = write_byte(bus, setup[1], setup[2])
    /\ last' = [op |-> "write"]
    /\ UNCHANGED <<machine, cpu, timer, ppu, build, ret, ghost>>

\* Timer::step(&mut bus, cycles)
TimaStep ==
    /\ \E cycles \in TimerCycles :
          /\ ghost.total + cycles <= MaxTimaCycles
          /\ \E out \in {timer_step(timer, bus, cycles)} :
                /\ timer' = out.timer
                /\ bus' = out.bus
          /\ last' = [op |-> "timer_step", cycles |-> cycles, bus |-> bus, timer |-> timer]
          /\ ghost' = [ghost EXCEPT !.total = @ + cycles]
    /\ UNCHANGED <<machine, cpu, ppu, build, ret>>

NextTima == TimaSetup \/ TimaStep

SpecTima == InitTima /\ [][NextTima]_vars

\* the Timer::step just made ticked TIMA: the timer was enabled and the cycles
\* accumulated, with those of this step, reached the period TAC selects
TimaTicked ==
    /\ last.op = "timer_step"
    /\ BitAnd(read_byte(last.bus, TAC_ADDR), \h04) # 0
    /\ last.timer.timer_cycles + last.cycles >=
          (CASE read_byte(last.bus, TAC_ADDR) % 4 = 0 -> 256
             [] read_byte(last.bus, TAC_ADDR) % 4 = 1 -> 4
             [] read_byte(last.bus, TAC_ADDR) % 4 = 2 -> 16
             [] read_byte(last.bus, TAC_ADDR) % 4 = 3 -> 64)

\* C16: a tick of the enabled timer at TIMA = 0xFF loads TMA into TIMA and sets bit 2 of
\* IF, the other bits of IF unchanged; a tick at any other TIMA adds 1 to TIMA and leaves
\* IF as it was
C16_TimaOverflowReloads ==
    TimaTicked =>
        IF read_byte(last.bus, TIMA_ADDR) = \hFF
        THEN /\ read_byte(bus, TIMA_ADDR) = read_byte(last.bus, TMA_ADDR)
             /\ read_byte(bus, IF_ADDR) = BitOr(read_byte(last.bus, IF_ADDR), \h04)
        ELSE /\ read_byte(bus, TIMA_ADDR) = read_byte(last.bus, TIMA_ADDR) + 1
             /\ read_byte(bus, IF_ADDR) = read_byte(last.bus, IF_ADDR)

\* a tick at TIMA = 0xFF with TMA = 0x42 and IF = 0xE1: TIMA reads 0x42, IF reads 0xE5
C16_Witness ==
    /\ TimaTicked
    /\ read_byte(last.bus, TIMA_ADDR) = \hFF
    /\ read_byte(last.bus, IF_ADDR) = \hE1
    /\ read_byte(bus, TIMA_ADDR) = \h42
    /\ read_byte(bus, IF_ADDR) = \hE5

(***************************************************************************)
(* The boot ROM overlay and Machine::reset: a machine with an MBC1         *)
(* cartridge, with or without the boot ROM, stored to by the CPU and reset.*)
(***************************************************************************)
\* the boot image: its first and its last byte (bank 0 of the cartridge holds 0 there)
BootImage == (\h0000 :> \h31) @@ (\h00FF :> \h50)

\* the stores of the CPU: into the overlay's range (RAM enable of the mapper under it),
\* to the boot ROM disable register, to work RAM, and a line number into LYC
BootWrites ==
    {<<\h0000, \h0A>>, <<\h00FF, \h0A>>,
     <<BOOT_OFF_ADDR, \h00>>, <<BOOT_OFF_ADDR, \h01>>,
     <<\hC000, \h77>>,
     <<LYC_ADDR, \h05>>}

InitBoot ==
    /\ cpu = CpuDefault
    /\ bus = [MemorySystemDefault EXCEPT !.cartridge = LoadedMbc1Cartridge(Mbc1Image)]
    /\ timer = TimerDefault
    /\ ppu = PpuDefault
    /\ machine = MachineDefault
    /\ build = "any"
    /\ ret = NoRet
    /\ last = NoCall
    /\ ghost = [resets |-> 0]

\* Machine::use_boot_rom(), the file read succeeding
UseBootRom ==
    /\ Running
    /\ ~bus.boot_rom_loaded
    /\ machine' = [machine EXCEPT !.start_addr = \h0000]
    /\ bus' = load_boot_rom(bus, BootImage)
    /\ last' = [op |-> "use_boot_rom"]
    /\ UNCHANGED <<cpu, timer, ppu, build, ret, ghost>>

\* a store of the CPU: MemorySystem::write_byte
BootWrite ==
    /\ Running
    /\ \E w \in BootWrites :
          /\ bus' = write_byte(bus, w[1], w[2])
          /\ last' = [op |-> "write", address |-> w[1], byte |-> w[2], bus |-> bus]
    /\ UNCHANGED <<cpu, timer, ppu, machine, build, ret, ghost>>

\* Machine::reset()
BootReset ==
    /\ Running
    /\ \E out \in {machine_reset(cpu, bus, timer, ppu, machine)} :
          /\ cpu' = out.cpu
          /\ bus' = out.bus
          /\ timer' = out.timer
          /\ ppu' = out.ppu
          /\ machine' = out.machine
          /\ ret' = IF out.panic # "none" THEN [kind |-> "panic", value |-> 0]
                    ELSE [kind |-> "Ok", value |-> 0]
    /\ last' = [op |-> "reset"]
    /\ ghost' = [ghost EXCEPT !.resets = 1]
    /\ UNCHANGED build

NextBoot == UseBootRom \/ BootWrite \/ BootReset

SpecBoot == InitBoot /\ [][NextBoot]_vars

\* C17: while the overlay is enabled 0x0000..0x00FF reads the boot image and a store
\* there changes nothing; a store leaves the overlay enabled unless it stores a nonzero
\* byte to 0xFF50, which disables it; no store enables a disabled overlay
C17_OverlayUntilNonzeroStore ==
    /\ bus.boot_rom_enabled =>
          \A address \in {\h0000, \h00FF} : read_byte(bus, address) = BootImage[address]
    /\ last.op = "write" =>
          /\ (last.bus.boot_rom_enabled /\ last.address < \h100) => bus = last.bus
          /\ last.bus.boot_rom_enabled =>
                (bus.boot_rom_enabled <=> ~(last.address = BOOT_OFF_ADDR /\ last.byte # 0))
          /\ ~last.bus.boot_rom_enabled => ~bus.boot_rom_enabled

\* the registers Machine::reset is to leave
ResetRegisters ==
    /\ cpu.af = \h01B0 /\ cpu.bc = \h0013 /\ cpu.de = \h00D8 /\ cpu.hl = \h014D
    /\ cpu.sp = \hFFFE
    /\ cpu.pc = (IF bus.boot_rom_loaded THEN \h0000 ELSE \h0100)
    /\ ~cpu.ime /\ ~cpu.halted
    /\ read_byte(bus, IE_ADDR) = \h00
    /\ read_byte(bus, IF_ADDR) = \hE1
    /\ read_byte(bus, LCDC_ADDR) = \h91
    /\ read_byte(bus, STAT_ADDR) = \h80
    /\ read_byte(bus, BGP_ADDR) = \hFC
    /\ read_byte(bus, OBP0_ADDR) = \hFF
    /\ read_byte(bus, OBP1_ADDR) = \hFF

\* C18: Machine::reset(), in any state, returns and leaves AF = 0x01B0, BC = 0x0013,
\* DE = 0x00D8, HL = 0x014D, SP = 0xFFFE, PC = 0x0100 (0x0000 with a boot ROM),
\* ime and halted false, IE = 0x00, IF = 0xE1, LCDC = 0x91, STAT = 0x80, BGP = 0xFC,
\* OBP0 = OBP1 = 0xFF
C18_ResetState ==
    last.op = "reset" => (ret.kind = "Ok" /\ ResetRegisters)

\* what a completed Machine::reset leaves in this code: the CPU registers, IE, IF and
\* the palettes as above, LCDC and STAT as they were stored before
ResetLeavesLcdc ==
    (last.op = "reset" /\ ret.kind = "Ok") =>
        /\ cpu = [CpuDefault EXCEPT !.pc = IF bus.boot_rom_loaded THEN \h0000 ELSE \h0100]
        /\ read_byte(bus, IE_ADDR) = \h00 /\ read_byte(bus, IF_ADDR) = \hE1
        /\ read_byte(bus, BGP_ADDR) = \hFC
        /\ read_byte(bus, OBP0_ADDR) = \hFF /\ read_byte(bus, OBP1_ADDR) = \hFF
        /\ read_byte(bus, LCDC_ADDR) = \h00 /\ read_byte(bus, STAT_ADDR) = \h00
        /\ read_byte(bus, LYC_ADDR) # 0

(***************************************************************************)
(* machine.rs: Machine::step and Machine::step_frame.  The `for` loop of   *)
(* step_frame is run one pass per action; machine.frame holds the locals   *)
(* of the call that is in progress.                                        *)
(***************************************************************************)
\* const CYCLES_PER_FRAME: usize = 70224
CYCLES_PER_FRAME == 70224

P1JoypSelectButtons == \h20
P1JoypSelectDpad == \h10

\* Joypad::update: the value of `joyp` that is stored
joypad_update_joyp(j, b) ==
    LET joyp0 == BitOr(BitAnd(read_byte(b, P1JOYP_ADDR), P1JoypAll), \h0F)
        joyp1 == IF BitAnd(joyp0, P1JoypSelectDpad) = 0 THEN BitAnd(joyp0, j.d_pad) ELSE joyp0
    IN  IF BitAnd(joyp1, P1JoypSelectButtons) = 0 THEN BitAnd(joyp1, j.buttons) ELSE joyp1

\* Joypad::update: the bus after it
joypad_update_bus(j, b) ==
    LET joyp == joypad_update_joyp(j, b)
        b1 == IF joyp % 16 # j.prev % 16 THEN set_interrupt_flag(b, JOYPAD) ELSE b
    IN  write_byte(b1, P1JOYP_ADDR, BitOr(read_byte(b1, P1JOYP_ADDR), joyp))

\* Joypad::update: the fields of the Joypad after it
joypad_update_fields(j, b) == [j EXCEPT !.prev = joypad_update_joyp(j, b)]

\* Machine::step after a Cpu::step that returned Ok(cycles), whose outcome is `s`, and
\* after the Ppu::update that followed it, whose outcome is `drawn`
machine_step_rest(s, drawn, t, m) ==
    LET timed == IF s.cpu.stopped THEN [timer |-> t, bus |-> drawn.bus]
                 ELSE timer_step(t, drawn.bus, s.ret)
    IN  IF drawn.panic # "none" \/ drawn.ovf
        THEN [cpu |-> s.cpu, bus |-> drawn.at.bus, timer |-> t, ppu |-> drawn.at.ppu,
              machine |-> m, ret |-> 0, panic |-> drawn.panic, ovf |-> drawn.ovf,
              err |-> FALSE]
        ELSE [cpu |-> s.cpu, bus |-> joypad_update_bus(m.joypad, timed.bus),
              timer |-> timed.timer, ppu |-> drawn.ppu,
              machine |-> [m EXCEPT !.joypad = joypad_update_fields(@, timed.bus)],
              ret |-> s.ret, panic |-> "none", ovf |-> s.ovf, err |-> FALSE]

\* a Machine::step that checks for interrupts once more after the devices' advance
machine_step_from_rechecking(s, t, p, m) ==
    IF s.panic # "none" \/ s.err
    THEN [cpu |-> s.cpu, bus |-> s.bus, timer |-> t, ppu |-> p, machine |-> m,
          ret |-> 0, panic |-> s.panic, ovf |-> s.ovf, err |-> s.err]
    ELSE LET out == machine_step_rest(s, ppu_update(p, s.bus, s.ret), t, m)
             irq == handle_interrupt(out.cpu, out.bus)
         IN  [out EXCEPT !.cpu = irq.cpu, !.bus = irq.bus]

\* Machine::step after its Cpu::step, whose outcome is `s`: `?` returns its error
machine_step_from(s, t, p, m) ==
    IF s.panic # "none" \/ s.err
    THEN [cpu |-> s.cpu, bus |-> s.bus, timer |-> t, ppu |-> p, machine |-> m,
          ret |-> 0, panic |-> s.panic, ovf |-> s.ovf, err |-> s.err]
    ELSE machine_step_rest(s, ppu_update(p, s.bus, s.ret), t, m)

\* Machine::step
machine_step(c, b, t, p, m) == machine_step_from(cpu_step(c, b), t, p, m)

\* BreakpointManager::has_breakpoint
has_breakpoint(m, address) == address \in m.breakpoints

\* a step_frame whose loop sets breakpoint_hit and goes on without the `break`
frame_pass_without_break(m, cycles, pc) ==
    [m EXCEPT !.frame = [running |-> @.i + 1 < CYCLES_PER_FRAME,
                         i |-> @.i + 1,
                         total_cycles |-> @.total_cycles + cycles,
                         breakpoint_hit |-> @.breakpoint_hit \/ pc \in m.breakpoints]]

\* the locals of step_frame after one pass of its loop that added `cycles` and left
\* the CPU at `pc`: the pass breaks at a breakpoint, and the loop ends after
\* CYCLES_PER_FRAME passes
frame_pass(m, cycles, pc) ==
    LET hit == has_breakpoint(m, pc)
    IN  [m EXCEPT !.frame = [running |-> ~hit /\ @.i + 1 < CYCLES_PER_FRAME,
                             i |-> @.i + 1,
                             total_cycles |-> @.total_cycles + cycles,
                             breakpoint_hit |-> hit]]

\* bound: the passes of step_frame's loop that are followed
MaxFramePasses == 4400

\* the programs at 0x0100: JP 0x0100 (16 cycles a pass), and NOP; JR -3 (4 and 12)
FrameImages ==
    {(\h0100 :> \hC3) @@ (\h0102 :> \h01),
     (\h0101 :> \h18) @@ (\h0102 :> \hFD)}

\* the addresses breakpoints are put at
FrameBreakpoints == {\h0100, \h0101}

InitFrame ==
    /\ \E image \in FrameImages :
          bus = [MemorySystemDefault EXCEPT !.cartridge = LoadedCartridge(EmptyArr @@ image)]
    /\ cpu = CpuDefault
    /\ timer = TimerDefault
    /\ ppu = PpuDefault
    /\ machine = MachineDefault
    /\ build = "any"
    /\ ret = NoRet
    /\ last = NoCall
    /\ ghost = [frames |-> 0]

\* BreakpointManager::add_breakpoint(address), before the frame is run
AddBreakpoint ==
    /\ ghost.frames = 0
    /\ machine.breakpoints = {}
    /\ \E address \in FrameBreakpoints :
          machine' = [machine EXCEPT !.breakpoints = @ \cup {address}]
    /\ last' = [op |-> "add_breakpoint"]
    /\ UNCHANGED <<cpu, bus, timer, ppu, build, ret, ghost>>

\* Machine::step_frame() is called: total_cycles = 0, breakpoint_hit = false
FrameBegin ==
    /\ Running
    /\ ghost.frames = 0
    /\ machine' = [machine EXCEPT !.frame = [running |-> TRUE, i |-> 0, total_cycles |-> 0,
                                             breakpoint_hit |-> FALSE]]
    /\ ghost' = [ghost EXCEPT !.frames = 1]
    /\ last' = [op |-> "step_frame"]
    /\ UNCHANGED <<cpu, bus, timer, ppu, build, ret>>

\* one pass of the loop of step_frame: Machine::step, the sum, the breakpoint test;
\* the call returns from the pass that breaks, fails, or is the last
FramePass ==
    /\ Running
    /\ machine.frame.running
    /\ machine.frame.i < MaxFramePasses
    /\ \E s \in {cpu_step(cpu, bus)} :
       \E out \in {machine_step_from(s, timer, ppu, machine)} :
       \E bld \in Builds(out) :
       \E r \in {step_ret(out, bld)} :
          /\ build' = bld
          /\ cpu' = out.cpu
          /\ bus' = out.bus
          /\ timer' = out.timer
          /\ ppu' = out.ppu
          /\ machine' = IF r.kind = "Ok" THEN frame_pass(out.machine, r.value, out.cpu.pc)
                        ELSE [out.machine EXCEPT !.frame.running = FALSE]
          /\ ret' = IF r.kind # "Ok" THEN r
                    ELSE [kind |-> "Ok", value |-> machine.frame.total_cycles + r.value]
    /\ last' = [op |-> "pass", total_cycles |-> machine.frame.total_cycles]
    /\ UNCHANGED ghost

NextFrame == AddBreakpoint \/ FrameBegin \/ FramePass

SpecFrame == InitFrame /\ [][NextFrame]_vars

\* C20: with no breakpoint hit, step_frame takes a step only while the cycles it has
\* accumulated are below 70224, and the total it returns is at least 70224 and less
\* than 70224 + 24
C20_FrameStopsAtBudget ==
    /\ (last.op = "pass" /\ ~machine.frame.breakpoint_hit) =>
          last.total_cycles < CYCLES_PER_FRAME
    /\ (last.op = "pass" /\ ret.kind = "Ok" /\ ~machine.frame.running
        /\ ~machine.frame.breakpoint_hit) =>
          /\ machine.frame.total_cycles >= CYCLES_PER_FRAME
          /\ machine.frame.total_cycles < CYCLES_PER_FRAME + 24

\* what the loop does in this code: without a breakpoint it is still stepping after
\* 4389 passes of 16 cycles, 70224 cycles accumulated, the 4390th pass taken
FrameCountsPasses ==
    (machine.frame.running /\ ~machine.frame.breakpoint_hit) =>
        machine.frame.i < CYCLES_PER_FRAME

\* a breakpoint ends the call in its first pass
FrameBreaksAtBreakpoint ==
    (last.op = "pass" /\ has_breakpoint(machine, cpu.pc) /\ ret.kind = "Ok") =>
        /\ machine.frame.breakpoint_hit
        /\ ~machine.frame.running

(***************************************************************************)
(* Machine::step_frame run to its return: the whole loop of one call, with *)
(* and without a breakpoint in the way.                                    *)
(***************************************************************************)
\* the program and the breakpoints of a call: JP 0x0100 with no breakpoint (the loop
\* runs out), JP 0x0100 with one at 0x0100 (met after the first step), and NOP; JR -3
\* with one at 0x0100, where PC already is when the call begins (met after the second)
FrameRuns ==
    {[image |-> (\h0100 :> \hC3) @@ (\h0102 :> \h01), breakpoints |-> {}],
     [image |-> (\h0100 :> \hC3) @@ (\h0102 :> \h01), breakpoints |-> {\h0100}],
     [image |-> (\h0101 :> \h18) @@ (\h0102 :> \hFD), breakpoints |-> {\h0100}]}

InitFrameRun ==
    /\ \E run \in FrameRuns :
          /\ bus = [MemorySystemDefault EXCEPT
                       !.cartridge = LoadedCartridge(EmptyArr @@ run.image)]
          /\ machine = [MachineDefault EXCEPT !.breakpoints = run.breakpoints]
    /\ cpu = CpuDefault
    /\ timer = TimerDefault
    /\ ppu = PpuDefault
    /\ build = "any"
    /\ ret = NoRet
    /\ last = NoCall
    /\ ghost = [frames |-> 0]

\* one pass of the loop of step_frame, as FramePass, any of the CYCLES_PER_FRAME
\* passes; `last` keeps the PC the step began at
FrameRunPass ==
    /\ Running
    /\ machine.frame.running
    /\ \E s \in {cpu_step(cpu, bus)} :
       \E out \in {machine_step_from(s, timer, ppu, machine)} :
       \E bld \in Builds(out) :
       \E r \in {step_ret(out, bld)} :
          /\ build' = bld
          /\ cpu' = out.cpu
          /\ bus' = out.bus
          /\ timer' = out.timer
          /\ ppu' = out.ppu
          /\ machine' = IF r.kind = "Ok" THEN frame_pass(out.machine, r.value, out.cpu.pc)
                        ELSE [out.machine EXCEPT !.frame.running = FALSE]
          /\ ret' = IF r.kind # "Ok" THEN r
                    ELSE [kind |-> "Ok", value |-> machine.frame.total_cycles + r.value]
    /\ last' = [op |-> "pass", total_cycles |-> machine.frame.total_cycles, pc |-> cpu.pc]
    /\ UNCHANGED ghost

NextFrameRun == FrameBegin \/ FrameRunPass

SpecFrameRun == InitFrameRun /\ [][NextFrameRun]_vars

\* step_frame has returned Ok((total_cycles, breakpoint_hit))
FrameReturned == last.op = "pass" /\ ret.kind = "Ok" /\ ~machine.frame.running

FrameLoopRanOut ==
    /\ FrameReturned
    /\ ~machine.frame.breakpoint_hit
    /\ machine.frame.i = CYCLES_PER_FRAME
    /\ machine.breakpoints = {}

(***************************************************************************)
(* MemorySystem::read_byte over the whole address space, for the cartridge *)
(* of Machine::default(), a ROM-only image and an MBC1 image, with and     *)
(* without the boot overlay.  A get_unchecked past the end of its slice is *)
(* undefined behaviour: the read returns whatever lies there, or faults.   *)
(***************************************************************************)
\* the index a read of the cartridge ROM uses: RomOnly::read, read_handler_rom_0000,
\* read_handler_rom_4000
mapper_rom_index(c, address) ==
    IF c.mapper = "Mbc1"
    THEN IF address <= \h3FFF THEN rom_0000_index(c.mbc1, address)
         ELSE rom_4000_index(c.mbc1, address)
    ELSE address

\* whether a read of 0xA000..0xBFFF indexes the cartridge RAM
reads_cartridge_ram(c) ==
    c.mapper = "Mbc1" /\ c.has_ram /\ c.mbc1.ram_enabled /\ c.mbc1.ram_bank_count # 0

\* a read that indexes nothing: the arms that return 0xFF or the `interrupts` field
NoIndex == [idx |-> 0, len |-> 1]

\* the index MemorySystem::read_byte(address) uses and the length of the array or
\* slice it indexes
read_place(b, address) ==
    IF b.boot_rom_enabled /\ address < \h100 THEN [idx |-> address, len |-> \h100]
    ELSE IF address <= \h7FFF
    THEN [idx |-> mapper_rom_index(b.cartridge, address), len |-> b.cartridge.rom_len]
    ELSE IF address <= \h9FFF THEN [idx |-> address - \h8000, len |-> \h2000]
    ELSE IF address <= \hBFFF
    THEN IF reads_cartridge_ram(b.cartridge)
         THEN [idx |-> mbc1_ram_bank(b.cartridge.mbc1) * RAM_BANK_SIZE
                          + BitAnd(address - \hA000, RAM_BANK_SIZE - 1),
               len |-> b.cartridge.mbc1.ram_bank_count * RAM_BANK_SIZE]
         ELSE NoIndex
    ELSE IF address <= \hCFFF THEN [idx |-> address - \hC000, len |-> \h1000]
    ELSE IF address <= \hDFFF THEN [idx |-> address - \hD000, len |-> \h1000]
    ELSE IF address <= \hEFFF THEN [idx |-> address - \hE000, len |-> \h1000]
    ELSE IF address <= \hFDFF THEN [idx |-> address - \hF000, len |-> \h1000]
    ELSE IF address <= \hFE9F THEN [idx |-> address - \hFE00, len |-> \h100]
    ELSE IF address <= \hFEFF THEN NoIndex
    ELSE IF address <= \hFF7F THEN [idx |-> address - \hFF00, len |-> \h80]
    ELSE IF address <= \hFFFE THEN [idx |-> address - \hFF80, len |-> \hFF]
    ELSE NoIndex

\* whether read_byte(address) indexes inside its backing array
read_indexes_inside(b, address) == read_place(b, address).idx < read_place(b, address).len

\* what a read past the end of the ROM may find there
StrayBytes == {\h00, \h5A, \hFF}

\* the outcomes of read_byte(address): the byte read, or, past the end of the slice,
\* any byte or a fault
read_outcomes(b, address) ==
    IF read_indexes_inside(b, address)
    THEN {[kind |-> "Ok", value |-> read_byte(b, address)]}
    ELSE {[kind |-> "Ok", value |-> read_byte([b EXCEPT !.cartridge.oob = stray], address)] :
             stray \in StrayBytes}
         \cup {[kind |-> "fault", value |-> 0]}

\* the first and the last address of every arm of read_byte
ReadProbes ==
    {\h0000, \h00FF, \h0100, \h3FFF, \h4000, \h7FFF, \h8000, \h9FFF, \hA000, \hBFFF,
     \hC000, \hCFFF, \hD000, \hDFFF, \hE000, \hEFFF, \hF000, \hFDFF, \hFE00, \hFE9F,
     \hFEA0, \hFEFF, \hFF00, \hFF7F, \hFF80, \hFFFE, \hFFFF}

\* the stores made before the reads: the mapper's registers, cartridge RAM, an
\* unusable cell, work RAM
ReadWrites ==
    {<<\h0000, \h0A>>, <<\h2000, \h00>>, <<\h2000, \h1F>>, <<\h4000, \h03>>,
     <<\h6000, \h01>>, <<\hBFFF, \h77>>, <<\hFEA0, \h12>>, <<\hC000, \h34>>}

\* bound: the stores made before the reads
MaxReadWrites == 3

\* a ROM-only image of 32 KiB with a byte in its last cell
ReadImage == (\h7FFF :> \h99)

InitRead ==
    /\ \E cartridge \in {EmptyCartridge, LoadedCartridge(EmptyArr @@ ReadImage),
                         LoadedMbc1Cartridge(Mbc1Image)} :
       \E boot \in BOOLEAN :
          bus = IF boot
                THEN load_boot_rom([MemorySystemDefault EXCEPT !.cartridge = cartridge],
                                   BootImage)
                ELSE [MemorySystemDefault EXCEPT !.cartridge = cartridge]
    /\ cpu = CpuDefault
    /\ timer = TimerDefault
    /\ ppu = PpuDefault
    /\ machine = MachineDefault
    /\ build = "any"
    /\ ret = NoRet
    /\ last = NoCall
    /\ ghost = [writes |-> 0]

\* MemorySystem::write_byte(address, byte)
ReadWrite ==
    /\ ret.kind # "fault"
    /\ ghost.writes < MaxReadWrites
    /\ \E w \in ReadWrites :
          /\ bus' = write_byte(bus, w[1], w[2])
          /\ last' = [op |-> "write", address |-> w[1], byte |-> w[2]]
    /\ ghost' = [ghost EXCEPT !.writes = @ + 1]
    /\ ret' = NoRet
    /\ UNCHANGED <<cpu, timer, ppu, machine, build>>

\* MemorySystem::read_byte(address)
ReadByte ==
    /\ ret.kind # "fault"
    /\ \E address \in ReadProbes :
       \E r \in read_outcomes(bus, address) :
          /\ ret' = r
          /\ last' = [op |-> "read", address |-> address,
                      inside |-> read_indexes_inside(bus, address)]
    /\ UNCHANGED <<cpu, bus, timer, ppu, machine, build, ghost>>

NextRead == ReadWrite \/ ReadByte

SpecRead == InitRead /\ [][NextRead]_vars

\* C22: every read_byte indexes inside its backing array and returns a byte, for the
\* empty cartridge of Machine::default() and for every bank setting of an MBC1, and a
\* read of 0xFEA0..0xFEFF returns 0xFF
C22_ReadAlwaysDefined ==
    last.op = "read" =>
        /\ last.inside
        /\ ret.kind = "Ok"
        /\ ret.value \in 0..255
        /\ last.address \in \hFEA0..\hFEFF => ret.value = \hFF

\* what holds of read_byte in this code: with a cartridge loaded from a file, every
\* address indexes inside its array in every mapper state, and 0xFEA0..0xFEFF reads 0xFF
ReadDefinedWhenLoaded ==
    /\ (last.op # "read" /\ bus.cartridge # EmptyCartridge) =>
          \A address \in 0..65535 : read_indexes_inside(bus, address)
    /\ (last.op = "read" /\ last.address \in \hFEA0..\hFEFF) =>
          (ret.kind = "Ok" /\ ret.value = \hFF)

\* with the empty cartridge the reads of 0x0000..0x3FFF are inside the 0x4000 bytes
\* of its ROM and those of 0x4000..0x7FFF are past its end
ReadPastEmptyRom ==
    bus.cartridge = EmptyCartridge =>
        \A address \in ReadProbes :
            read_indexes_inside(bus, address) <=> address \notin \h4000..\h7FFF

(***************************************************************************)
(* Machine::load_cartridge and Machine::use_boot_rom, succeeding and       *)
(* failing, on a machine whose mapper and overlay the CPU has stored to.   *)
(***************************************************************************)
\* MemorySystem::load_boot_rom failing: the two flags are set before File::open, so an
\* Err of File::open leaves them set over the boot_rom array as it was, and an Err of
\* read_exact leaves them set over an array whose contents are unspecified
load_boot_rom_failed(b, boot_rom) ==
    [b EXCEPT !.boot_rom_enabled = TRUE, !.boot_rom_loaded = TRUE, !.boot_rom = boot_rom]

\* the outcomes of MemorySystem::load_boot_rom() with a file holding `image`, with no
\* file, and with a file that ends early
load_boot_rom_outcomes(b, image) ==
    {[kind |-> "Ok", bus |-> load_boot_rom(b, image)],
     [kind |-> "Err", bus |-> load_boot_rom_failed(b, b.boot_rom)],
     [kind |-> "Err", bus |-> load_boot_rom_failed(b, EmptyArr @@ (\h0000 :> image[\h0000]))]}

\* the outcomes of MemorySystem::load_cartridge(path): `?` returns the Err of
\* Cartridge::load_from_path before the assignment
load_cartridge_outcomes(b, cartridge) ==
    {[kind |-> "Ok", bus |-> [b EXCEPT !.cartridge = cartridge]],
     [kind |-> "Err", bus |-> b]}

\* the stores of the CPU between the calls: a ROM bank, RAM enable, the boot ROM
\* disable register
LoadWrites == {<<\h2000, \h05>>, <<\h0000, \h0A>>, <<BOOT_OFF_ADDR, \h01>>}

\* bound: the calls and stores that are followed
MaxLoadCalls == 4

\* what a call may change, kept from before it
LoadState == [bus |-> bus, start_addr |-> machine.start_addr]

InitLoad ==
    /\ \E cartridge \in {EmptyCartridge, LoadedMbc1Cartridge(Mbc1Image)} :
          bus = [MemorySystemDefault EXCEPT !.cartridge = cartridge]
    /\ cpu = CpuDefault
    /\ timer = TimerDefault
    /\ ppu = PpuDefault
    /\ machine = MachineDefault
    /\ build = "any"
    /\ ret = NoRet
    /\ last = NoCall
    /\ ghost = [calls |-> 0]

\* a store of the CPU: MemorySystem::write_byte
LoadWrite ==
    /\ ghost.calls < MaxLoadCalls
    /\ \E w \in LoadWrites : bus' = write_byte(bus, w[1], w[2])
    /\ last' = [op |-> "write"]
    /\ ret' = NoRet
    /\ ghost' = [ghost EXCEPT !.calls = @ + 1]
    /\ UNCHANGED <<cpu, timer, ppu, machine, build>>

\* Machine::load_cartridge(path)
LoadCartridge ==
    /\ ghost.calls < MaxLoadCalls
    /\ \E cartridge \in {LoadedCartridge(EmptyArr @@ ReadImage), LoadedMbc1Cartridge(Mbc1Image)} :
       \E out \in load_cartridge_outcomes(bus, cartridge) :
          /\ bus' = out.bus
          /\ ret' = [kind |-> out.kind, value |-> 0]
    /\ last' = [op |-> "load_cartridge", before |-> LoadState]
    /\ ghost' = [ghost EXCEPT !.calls = @ + 1]
    /\ UNCHANGED <<cpu, timer, ppu, machine, build>>

\* Machine::use_boot_rom(): start_addr is set, then MemorySystem::load_boot_rom runs
LoadBootRom ==
    /\ ghost.calls < MaxLoadCalls
    /\ \E out \in load_boot_rom_outcomes(bus, BootImage) :
          /\ bus' = out.bus
          /\ ret' = [kind |-> out.kind, value |-> 0]
    /\ machine' = [machine EXCEPT !.start_addr = \h0000]
    /\ last' = [op |-> "use_boot_rom", before |-> LoadState]
    /\ ghost' = [ghost EXCEPT !.calls = @ + 1]
    /\ UNCHANGED <<cpu, timer, ppu, build>>

NextLoad == LoadWrite \/ LoadCartridge \/ LoadBootRom

SpecLoad == InitLoad /\ [][NextLoad]_vars

\* a call of load_cartridge or use_boot_rom has returned an error
LoadFailed == last.op \in {"load_cartridge", "use_boot_rom"} /\ ret.kind = "Err"

\* what the claim says is kept by a failed call
LoadStateKept ==
    /\ bus.cartridge = last.before.bus.cartridge
    /\ bus.boot_rom_enabled = last.before.bus.boot_rom_enabled
    /\ bus.boot_rom_loaded = last.before.bus.boot_rom_loaded
    /\ machine.start_addr = last.before.start_addr
    /\ read_byte(bus, \h0000) = read_byte(last.before.bus, \h0000)

\* C23: after load_cartridge or use_boot_rom returned an error, the cartridge and its
\* mapper, the boot overlay's enabled and loaded flags and the reset start address are
\* what they were before the call, and address 0x0000 reads what it read before
C23_FailedLoadKeepsState == LoadFailed => LoadStateKept

\* what holds in this code: a failed load_cartridge changes nothing in the machine
FailedLoadCartridgeKeepsState ==
    (last.op = "load_cartridge" /\ ret.kind = "Err") =>
        /\ LoadStateKept
        /\ bus = last.before.bus

(***************************************************************************)
(* joypad/mod.rs: buttons pressed and released by the frontend, the select *)
(* bits stored by the CPU, and Joypad::update, the refresh Machine::step   *)
(* ends with.                                                              *)
(***************************************************************************)
\* the buttons followed: two of the D-pad, two of the other line
JoypButtons == {"Right", "Down", "A", "Start"}

\* impl From<Button> for P1JOYP
button_bits(button) ==
    CASE button \in {"Right", "A"} -> \h01
      [] button \in {"Left", "B"} -> \h02
      [] button \in {"Up", "Select"} -> \h04
      [] button \in {"Down", "Start"} -> \h08

\* the arm of the match in button_pressed and button_released
is_d_pad(button) == button \in {"Up", "Down", "Left", "Right"}

\* Joypad::button_pressed: the button's bit is removed from its line
button_pressed(j, button) ==
    IF is_d_pad(button) THEN [j EXCEPT !.d_pad = BitAnd(@, 255 - button_bits(button))]
    ELSE [j EXCEPT !.buttons = BitAnd(@, 255 - button_bits(button))]

\* Joypad::button_released: the button's bit is inserted into its line
button_released(j, button) ==
    IF is_d_pad(button) THEN [j EXCEPT !.d_pad = BitOr(@, button_bits(button))]
    ELSE [j EXCEPT !.buttons = BitOr(@, button_bits(button))]

\* the stores of the CPU: the four settings of the select bits, IF cleared, and a line
\* number into LYC
JoypWrites ==
    {<<P1JOYP_ADDR, \h00>>, <<P1JOYP_ADDR, \h10>>, <<P1JOYP_ADDR, \h20>>,
     <<P1JOYP_ADDR, \h30>>, <<IF_ADDR, \h00>>, <<LYC_ADDR, \h05>>}

InitJoyp ==
    /\ bus = MemorySystemDefault
    /\ cpu = CpuDefault
    /\ timer = TimerDefault
    /\ ppu = PpuDefault
    /\ machine = MachineDefault
    /\ build = "any"
    /\ ret = NoRet
    /\ last = NoCall
    /\ ghost = [refreshed |-> FALSE]

\* a store of the CPU: MemorySystem::write_byte
JoypWrite ==
    /\ Running
    /\ \E w \in JoypWrites : bus' = write_byte(bus, w[1], w[2])
    /\ last' = [op |-> "write"]
    /\ UNCHANGED <<cpu, timer, ppu, machine, build, ret, ghost>>

\* Machine::reset()
JoypReset ==
    /\ Running
    /\ \E out \in {machine_reset(cpu, bus, timer, ppu, machine)} :
          /\ cpu' = out.cpu
          /\ bus' = out.bus
          /\ timer' = out.timer
          /\ ppu' = out.ppu
          /\ machine' = out.machine
          /\ ret' = IF out.panic # "none" THEN [kind |-> "panic", value |-> 0]
                    ELSE [kind |-> "Ok", value |-> 0]
    /\ last' = [op |-> "reset"]
    /\ UNCHANGED <<build, ghost>>

\* Machine::button_pressed(button)
JoypPress ==
    /\ Running
    /\ \E button \in JoypButtons :
          machine' = [machine EXCEPT !.joypad = button_pressed(@, button)]
    /\ last' = [op |-> "press"]
    /\ UNCHANGED <<cpu, bus, timer, ppu, build, ret, ghost>>

\* Machine::button_released(button)
JoypRelease ==
    /\ Running
    /\ \E button \in JoypButtons :
          machine' = [machine EXCEPT !.joypad = button_released(@, button)]
    /\ last' = [op |-> "release"]
    /\ UNCHANGED <<cpu, bus, timer, ppu, build, ret, ghost>>

\* Joypad::update(bus), the refresh at the end of Machine::step
JoypRefresh ==
    /\ Running
    /\ bus' = joypad_update_bus(machine.joypad, bus)
    /\ machine' = [machine EXCEPT !.joypad = joypad_update_fields(@, bus)]
    /\ last' = [op |-> "refresh", prev |-> machine.joypad.prev,
                flags |-> interrupt_flag(bus), refreshed |-> ghost.refreshed]
    /\ ghost' = [refreshed |-> TRUE]
    /\ UNCHANGED <<cpu, timer, ppu, build, ret>>

NextJoyp == JoypWrite \/ JoypReset \/ JoypPress \/ JoypRelease \/ JoypRefresh

SpecJoyp == InitJoyp /\ [][NextJoyp]_vars

\* the refresh just made set the JOYPAD bit of IF, clear before it
JoypadRaised ==
    /\ last.op = "refresh"
    /\ BitAnd(last.flags, JOYPAD) = 0
    /\ BitAnd(interrupt_flag(bus), JOYPAD) # 0

\* a bit of the lower nibble composed by this refresh is 0 where the nibble composed by
\* the refresh before it had 1
JoypadFallingEdge ==
    \E n \in 0..3 : Bit(last.prev, n) = 1 /\ Bit(machine.joypad.prev, n) = 0

\* C24: a refresh that follows another refresh raises JOYPAD only when a bit of the
\* composed lower nibble went from 1 to 0 since that refresh; when bits only went from
\* 0 to 1, or none changed, it does not raise it
C24_JoypadRaisedOnFallingEdge ==
    (JoypadRaised /\ last.refreshed) => JoypadFallingEdge

\* what holds in this code: a refresh raises JOYPAD exactly when the composed lower
\* nibble differs from the one composed before, in either direction
JoypadRaisedOnAnyChange ==
    (last.op = "refresh" /\ BitAnd(last.flags, JOYPAD) = 0) =>
        (BitAnd(interrupt_flag(bus), JOYPAD) # 0
            <=> machine.joypad.prev % 16 # last.prev % 16)

\* the lower nibble the spec composes: 1111, ANDed with the D-pad state when bit 4 of
\* 0xFF00 is 0 and with the button state when bit 5 is 0
ComposedNibble ==
    LET joyp == read_byte(bus, P1JOYP_ADDR)
        d == IF BitAnd(joyp, P1JoypSelectDpad) = 0 THEN machine.joypad.d_pad % 16 ELSE \h0F
        b == IF BitAnd(joyp, P1JoypSelectButtons) = 0 THEN machine.joypad.buttons % 16
             ELSE \h0F
    IN  BitAnd(d, b)

\* C25: after every refresh the lower nibble of 0xFF00 is the composed nibble: 0 in the
\* bit of a held button of a selected line, 1 elsewhere
C25_JoypReadsComposedNibble ==
    last.op = "refresh" => read_byte(bus, P1JOYP_ADDR) % 16 = ComposedNibble

\* what holds in this code: the refresh ORs the value it composed into 0xFF00, so a
\* bit that is 1 there stays 1 until the CPU stores a 0 to it
JoypNibbleOnlyGrows ==
    last.op = "refresh" =>
        BitAnd(read_byte(bus, P1JOYP_ADDR), machine.joypad.prev) = machine.joypad.prev

\* after a reset, with the button line selected: A is held, the refresh composed 1110,
\* and 0xFF00 still reads 1111
JoypHeldReadsOne ==
    /\ last.op = "refresh"
    /\ machine.joypad.buttons = \h3E
    /\ machine.joypad.d_pad = \h3F
    /\ machine.joypad.prev = \h1E
    /\ read_byte(bus, P1JOYP_ADDR) = \h1F

\* after a reset, with the button line selected: A was released, the composed nibble
\* went from 1110 to 1111, and the refresh raised JOYPAD
JoypReleaseRaises ==
    /\ JoypadRaised
    /\ last.refreshed
    /\ machine.joypad.buttons = \h3F
    /\ machine.joypad.d_pad = \h3F
    /\ last.prev = \h1E
    /\ machine.joypad.prev = \h1F

(***************************************************************************)
(* Ppu::update with the LCD off, in SpecPpu.                               *)
(***************************************************************************)
\* C26: a Ppu::update made while LCDC.ENABLE is 0 changes nothing: the mode clock, the
\* mode and the selected sprites of the PPU, and LY, STAT and IF on the bus, are after
\* it what they were before
C26_LcdOffUpdateChangesNothing ==
    [][(~contains(lcdc(bus), LCDC_ENABLE) /\ last'.op = "update") =>
          (ppu' = ppu /\ bus' = bus)]_vars

\* what holds in this code: with the LCD off the update adds its cycles to the mode
\* clock and changes nothing else
LcdOffUpdateCountsCycles ==
    [][(~contains(lcdc(bus), LCDC_ENABLE) /\ last'.op = "update") =>
          /\ ppu'.mode_clock \in {ppu.mode_clock + c : c \in PpuCycles}
          /\ ppu'.mode = ppu.mode
          /\ ppu'.current_line_sprites = ppu.current_line_sprites
          /\ bus' = bus]_vars

(***************************************************************************)
(* Register F under the instructions that write it, executed by Cpu::step  *)
(* from the reset state: the stack instructions and the arithmetic.        *)
(***************************************************************************)
\* bound: the instructions executed in one behaviour
MaxFlagSteps == 3

\* the opcodes an undetermined cell of the image may hold when it is fetched: PUSH BC,
\* PUSH DE, PUSH HL, PUSH AF, POP AF, POP BC, ADD A,n, SUB n, AND n, CP n, INC A, DEC A,
\* CPL, RLCA, ADD HL,BC
FlagOpcodes ==
    {\hC5, \hD5, \hE5, \hF5, \hF1, \hC1, \hC6, \hD6, \hE6, \hFE, \h3C, \h3D, \h2F, \h07,
     \h09}

InitFlags ==
    /\ cpu = CpuDefault
    /\ bus = [MemorySystemDefault EXCEPT !.cartridge = LoadedCartridge([i \in {} |-> 0])]
    /\ timer = TimerDefault
    /\ ppu = PpuDefault
    /\ machine = MachineDefault
    /\ build = "any"
    /\ ret = NoRet
    /\ last = NoCall
    /\ ghost = [steps |-> 0]

\* Cpu::step(&mut bus)
FlagStep ==
    /\ Running
    /\ ghost.steps < MaxFlagSteps
    /\ \E opcode \in FetchChoices(bus, cpu.pc, FlagOpcodes) :
       \E d1 \in OperandChoices(cpu, bus, opcode, 1) :
       \E b0 \in {with_fetched(cpu, bus, opcode, d1, 0)} :
       \E out \in {cpu_step(cpu, b0)} :
       \E bld \in Builds(out) :
       \E r \in {step_ret(out, bld)} :
          /\ build' = bld
          /\ cpu' = out.cpu
          /\ bus' = out.bus
          /\ ret' = r
          /\ last' = [op |-> "step", opcode |-> opcode, af |-> cpu.af]
    /\ ghost' = [ghost EXCEPT !.steps = @ + 1]
    /\ UNCHANGED <<machine, timer, ppu>>

NextFlags == FlagStep

SpecFlags == InitFlags /\ [][NextFlags]_vars

\* C27: in every CPU state reached by executing instructions from the reset state,
\* bits 3..0 of F are zero; POP AF keeps bits 7..4 only of the byte popped into F
C27_FlagLowNibbleZero == f(cpu) % 16 = 0

\* what holds in this code: POP AF stores the popped word whole, and every other
\* instruction leaves bits 3..0 of F as they were
FlagLowNibbleKept ==
    last.op = "step" =>
        IF last.opcode = \hF1 /\ ret.kind = "Ok"
        THEN cpu.af = read_word(bus, Wrap16(cpu.sp - 2))
        ELSE f(cpu) % 16 = Low8(last.af) % 16

(***************************************************************************)
(* Machine::step, step after step: the CPU, then the PPU, the timer and    *)
(* the joypad, on programs that enable interrupts or store to an I/O       *)
(* register, with the devices set up to raise an interrupt on the way.     *)
(***************************************************************************)
\* bound: the machine steps of one behaviour
MaxMachineSteps == 56

\* the bus after the stores of a sequence, made in order by MemorySystem::write_byte
RECURSIVE StoreAll(_, _)
StoreAll(b, writes) ==
    IF writes = <<>> THEN b
    ELSE StoreAll(write_byte(b, Head(writes)[1], Head(writes)[2]), Tail(writes))

\* EI at 0x0100 and NOP from there on, the vectors included
EiImage == (\h0100 :> \hFB)

\* LD A,value; LDH (register),A at 0x0100 and NOP from there on
StoreImage(value, register) ==
    (\h0100 :> \h3E) @@ (\h0101 :> value) @@ (\h0102 :> \hE0) @@ (\h0103 :> register)

\* LD A,0x80 at 0x0100, 49 NOP, and LDH (0x40),A at 0x0133: the LCD is switched on
\* 204 cycles after the start
LateStoreImage ==
    (\h0100 :> \h3E) @@ (\h0101 :> \h80) @@ (\h0133 :> \hE0) @@ (\h0134 :> \h40)

\* the programs and the stores made before they run: the timer two ticks and no tick
\* from its overflow with TIMER, then with every interrupt, enabled; the button line
\* selected with JOYPAD enabled; both; the LCD on at the end of line 143 with VBLANK
\* enabled; and the three programs that store to TAC, to LCDC and to IF
StepScenarios ==
    {[image |-> EiImage,
      writes |-> <<<<IE_ADDR, \h04>>, <<TAC_ADDR, \h05>>, <<TIMA_ADDR, \hFD>>>>],
     [image |-> EiImage,
      writes |-> <<<<IE_ADDR, \h04>>, <<TAC_ADDR, \h05>>, <<TIMA_ADDR, \hFF>>>>],
     [image |-> EiImage,
      writes |-> <<<<IE_ADDR, \h10>>, <<P1JOYP_ADDR, \h10>>>>],
     [image |-> EiImage,
      writes |-> <<<<IE_ADDR, \h1F>>, <<P1JOYP_ADDR, \h10>>, <<TAC_ADDR, \h05>>,
                   <<TIMA_ADDR, \hFD>>>>],
     [image |-> EiImage,
      writes |-> <<<<IE_ADDR, \h01>>, <<LCDC_ADDR, \h80>>, <<LY_ADDR, 143>>>>],
     [image |-> StoreImage(\h05, \h07), writes |-> <<>>],
     [image |-> LateStoreImage, writes |-> <<>>],
     [image |-> StoreImage(\h04, \h0F), writes |-> <<<<IE_ADDR, \h04>>>>]}

InitStep ==
    /\ \E scenario \in StepScenarios :
          bus = StoreAll([MemorySystemDefault EXCEPT
                             !.cartridge = LoadedCartridge(EmptyArr @@ scenario.image)],
                         scenario.writes)
    /\ cpu = CpuDefault
    /\ timer = TimerDefault
    /\ ppu = PpuDefault
    /\ machine = MachineDefault
    /\ build = "any"
    /\ ret = NoRet
    /\ last = NoCall
    /\ ghost = [steps |-> 0, raised |-> 0, released |-> FALSE]

\* Machine::button_released(Button::A), between two steps
StepRelease ==
    /\ Running
    /\ ~ghost.released
    /\ machine' = [machine EXCEPT !.joypad = button_released(@, "A")]
    /\ ghost' = [ghost EXCEPT !.released = TRUE]
    /\ UNCHANGED <<cpu, bus, timer, ppu, build, ret, last>>

\* Machine::step(); `last` keeps the machine as the step found it and the CPU, the bus
\* and IF as Cpu::step left them, ghost.raised the IF bits the devices set in the step
MachineStep ==
    /\ Running
    /\ ret.kind # "Err"
    /\ ghost.steps < MaxMachineSteps
    /\ \E s \in {cpu_step(cpu, bus)} :
       \E out \in {machine_step_from(s, timer, ppu, machine)} :
       \E bld \in Builds(out) :
       \E r \in {step_ret(out, bld)} :
          /\ build' = bld
          /\ cpu' = out.cpu
          /\ bus' = out.bus
          /\ timer' = out.timer
          /\ ppu' = out.ppu
          /\ machine' = out.machine
          /\ ret' = r
          /\ last' = [op |-> "machine_step", cpu |-> cpu, bus |-> bus, timer |-> timer,
                      ppu |-> ppu, after_cpu |-> s.cpu, after_bus |-> s.bus,
                      cycles |-> s.ret,
                      flags_after_cpu |-> interrupt_flag(s.bus),
                      raised |-> ghost.raised]
          /\ ghost' = [ghost EXCEPT
                          !.steps = @ + 1,
                          !.raised = IF r.kind = "Ok"
                                     THEN BitAnd(BitAnd(interrupt_flag(out.bus),
                                                        255 - interrupt_flag(s.bus)), \h1F)
                                     ELSE 0]

NextStep == StepRelease \/ MachineStep

SpecStep == InitStep /\ [][NextStep]_vars

\* a Machine::step has returned Ok
MachineStepped == last.op = "machine_step" /\ ret.kind = "Ok"

\* the step just made began with ime set and with a bit pending and enabled that the
\* devices had raised in the step before it
RaisedThenStepped ==
    /\ MachineStepped
    /\ last.cpu.ime
    /\ BitAnd(last.raised, Pending(last.bus)) # 0

\* the step just made dispatched the interrupt of bit k: 20 cycles, PC at the vector,
\* the old PC pushed, the bit cleared when Cpu::step returned
DispatchedBit(k) ==
    /\ ret.value = 20
    /\ last.cycles = 20
    /\ cpu.pc = 64 + 8 * k
    /\ cpu.sp = Wrap16(last.cpu.sp - 2)
    /\ Bit(last.flags_after_cpu, k) = 0
    /\ ~cpu.ime

\* in the step that raises them the bits stay pending and the CPU is as Cpu::step
\* left it: nothing is dispatched after the devices' advance
RaisedStaysPending ==
    MachineStepped =>
        /\ cpu = last.after_cpu
        /\ ret.value = last.cycles
        /\ BitAnd(interrupt_flag(bus), ghost.raised) = ghost.raised
        /\ BitAnd(last.flags_after_cpu, ghost.raised) = 0

\* C28 as stated: a bit the devices set in IF during step N is not dispatched in step
\* N, and step N+1, begun with ime set and the bit enabled, dispatches that bit
C28_RaisedDispatchedNextStep ==
    /\ RaisedStaysPending
    /\ RaisedThenStepped =>
          \A k \in 0..4 : Bit(BitAnd(last.raised, Pending(last.bus)), k) = 1 => DispatchedBit(k)

\* C28 amended: a bit the devices set in IF during step N is not dispatched in step N;
\* step N+1, begun with ime set and the bit enabled, dispatches the lowest bit that is
\* pending and enabled, which is the raised bit when no lower one is, and a raised bit
\* that is not dispatched stays pending
C28_RaisedObservedNextStep ==
    /\ RaisedStaysPending
    /\ RaisedThenStepped =>
          /\ DispatchedBit(LowestBit(Pending(last.bus)))
          /\ \A k \in 0..4 :
                (Bit(BitAnd(last.raised, Pending(last.bus)), k) = 1
                 /\ k # LowestBit(Pending(last.bus))) => Bit(interrupt_flag(bus), k) = 1

\* the timer overflowed in a step begun with ime set, and the next step dispatched TIMER
C28_Witness ==
    /\ RaisedThenStepped
    /\ last.raised = TIMER
    /\ Pending(last.bus) = TIMER
    /\ cpu.pc = \h0050
    /\ ret.value = 20

\* the PPU raised VBLANK at the end of line 143 and the next step dispatched it
StepDispatchedVblank ==
    /\ RaisedThenStepped
    /\ last.raised = VBLANK
    /\ cpu.pc = \h0040

\* the joypad raised JOYPAD in the step the timer raised TIMER, and the next step
\* dispatched TIMER and left JOYPAD pending
StepLeftJoypadPending ==
    /\ RaisedThenStepped
    /\ last.raised = BitOr(TIMER, JOYPAD)
    /\ cpu.pc = \h0050
    /\ BitAnd(interrupt_flag(bus), JOYPAD) # 0

\* the Cpu::step of the step just made stored a new value in TAC or in LCDC
StoredDeviceRegister ==
    /\ MachineStepped
    /\ \/ tac(last.after_bus) # tac(last.bus)
       \/ lcdc(last.after_bus) # lcdc(last.bus)

\* the PPU, then the timer, advanced by `cycles` from the step's beginning over the
\* bus `b`
devices_from(b, cycles) ==
    LET drawn == ppu_update(last.ppu, b, cycles)
        timed == timer_step(last.timer, drawn.bus, cycles)
    IN  [ppu |-> drawn.ppu, timer |-> timed.timer, tima |-> tima(timed.bus),
         stat |-> stat(timed.bus), ly |-> ly(timed.bus)]

\* the PPU and the timer as the step just made left them
DevicesNow ==
    [ppu |-> ppu, timer |-> timer, tima |-> tima(bus), stat |-> stat(bus), ly |-> ly(bus)]

\* C29 as stated: in the step whose Cpu::step stores to TAC or LCDC, the PPU and the
\* timer advance as over the registers the step began with; the store shows in the
\* next step's advance
C29_StoreSeenNextStep ==
    StoredDeviceRegister => DevicesNow = devices_from(last.bus, last.cycles)

\* in every step the PPU and the timer advance over the bus as Cpu::step left it
StoreSeenSameStep ==
    MachineStepped => DevicesNow = devices_from(last.after_bus, last.cycles)

\* LDH (0x07),A has enabled the timer and the timer has counted the cycles of the
\* same step toward TIMA's next tick
StoreToTacSeen ==
    /\ StoredDeviceRegister
    /\ tac(last.bus) = 0 /\ tac(bus) = \h05
    /\ last.timer.timer_cycles = 0 /\ timer.timer_cycles = last.cycles

\* LDH (0x40),A has switched the LCD on at the end of a line's cycles, and the PPU has
\* ended the line in the same step
StoreToLcdcSeen ==
    /\ StoredDeviceRegister
    /\ ~contains(lcdc(last.bus), LCDC_ENABLE)
    /\ contains(lcdc(bus), LCDC_ENABLE)
    /\ ly(last.bus) = 0 /\ ly(bus) = 1

(***************************************************************************)
(* TIMA's ticks against the cycles accumulated, over the behaviours of     *)
(* SpecTima.                                                               *)
(***************************************************************************)
\* TIMA after `n` ticks from `value`: a tick at 0xFF reloads `reload`
RECURSIVE tima_after(_, _, _)
tima_after(value, reload, n) ==
    IF n = 0 THEN value
    ELSE tima_after(IF value = \hFF THEN reload ELSE value + 1, reload, n - 1)

\* the Timer::step just made found TAC.Enable set
TimaStepped == last.op = "timer_step" /\ BitAnd(tac(last.bus), TacEnable) # 0

\* the Timer::step just made found TAC.Enable clear
TimaSkipped == last.op = "timer_step" /\ BitAnd(tac(last.bus), TacEnable) = 0

\* the cycles TIMA's accumulator held when the Timer::step just made had added its own
TimaAccumulated == last.timer.timer_cycles + last.cycles

\* C30 as stated: with TAC.Enable set a Timer::step ticks TIMA once for every full
\* period in the cycles accumulated and carries less than a period; with it clear
\* TIMA and the accumulator are left alone
C30_TimaTicksEveryPeriod ==
    /\ TimaStepped =>
          /\ tima(bus) = tima_after(tima(last.bus), tma(last.bus),
                                    TimaAccumulated \div timer_freq(tac(last.bus)))
          /\ timer.timer_cycles = TimaAccumulated % timer_freq(tac(last.bus))
          /\ timer.timer_cycles < timer_freq(tac(last.bus))
    /\ TimaSkipped =>
          /\ tima(bus) = tima(last.bus)
          /\ timer.timer_cycles = last.timer.timer_cycles

\* a Timer::step ticks TIMA once at most, when a full period has accumulated, and
\* carries the rest, a period or more included; with TAC.Enable clear TIMA and the
\* accumulator are left alone
TimaTicksOncePerStep ==
    /\ TimaStepped =>
          IF TimaAccumulated >= timer_freq(tac(last.bus))
          THEN /\ tima(bus) = tima_after(tima(last.bus), tma(last.bus), 1)
               /\ timer.timer_cycles = TimaAccumulated - timer_freq(tac(last.bus))
          ELSE /\ tima(bus) = tima(last.bus)
               /\ timer.timer_cycles = TimaAccumulated
    /\ TimaSkipped =>
          /\ tima(bus) = tima(last.bus)
          /\ timer.timer_cycles = last.timer.timer_cycles

\* at 4 cycles per tick a Timer::step of 24 cycles has ticked TIMA once and carries 20
TimaCarriedPeriods ==
    /\ TimaStepped
    /\ tac(last.bus) = \h05 /\ last.cycles = 24 /\ last.timer.timer_cycles = 0
    /\ tima(last.bus) = 0 /\ tima(bus) = 1
    /\ timer.timer_cycles = 20

\* a Timer::step of 24 cycles with the timer off
TimaLeftAlone ==
    /\ TimaSkipped /\ last.cycles = 24
    /\ tima(last.bus) = \hFF /\ tima(bus) = \hFF
    /\ timer.timer_cycles = 0

(***************************************************************************)
(* MBC1 cartridges of every ROM size the loader accepts up to 256 banks:   *)
(* stores to the two bank registers and to the mode register, and the bank *)
(* each ROM window reads.                                                  *)
(***************************************************************************)
\* the ROM size codes of the headers: 2, 4, 32, 64, 128 and 256 banks
BankRomSizes == {\h00, \h01, \h04, \h05, \h06, \h07}

\* the image of a cartridge of the given ROM size: type MBC1, 4 RAM banks, and the
\* first and the last byte of every bank from 1 to 127 holding the bank's number
BankImage(code) ==
    (HEADER_TYPE :> \h01) @@ (HEADER_ROM_SIZE :> code) @@ (HEADER_RAM_SIZE :> \h03)
    @@ [i \in {k * ROM_BANK_SIZE + o : k \in 1..(rom_banks_of(code) - 1) \cap 1..127,
                                       o \in {0, ROM_BANK_SIZE - 1}}
           |-> i \div ROM_BANK_SIZE]

\* the stores of the CPU, at both ends of each register's range: low five bits 0, 1,
\* 0x12 and 0x1F, with and without bits above them; high two bits 0 to 3, with and
\* without bits above them; the mode bit 0 and 1, with and without bits above it
BankWrites ==
    {<<\h2000, \h00>>, <<\h2000, \h01>>, <<\h3FFF, \h12>>, <<\h3FFF, \hFF>>,
     <<\h2000, \hE0>>,
     <<\h4000, \h00>>, <<\h4000, \h01>>, <<\h5FFF, \h02>>, <<\h5FFF, \hFF>>,
     <<\h4000, \hFC>>,
     <<\h6000, \h00>>, <<\h7FFF, \h01>>, <<\h6000, \hFE>>, <<\h7FFF, \hFF>>}

\* ghost: the last values stored to the three registers, masked, as the stores are made
InitBank ==
    /\ \E code \in BankRomSizes :
          bus = [MemorySystemDefault EXCEPT
                    !.cartridge = LoadedMbc1Cartridge(BankImage(code))]
    /\ cpu = CpuDefault
    /\ timer = TimerDefault
    /\ ppu = PpuDefault
    /\ machine = MachineDefault
    /\ build = "any"
    /\ ret = NoRet
    /\ last = NoCall
    /\ ghost = [low5 |-> 1, high2 |-> 0, mode |-> 0]

\* a store of the CPU to a register of the mapper: MemorySystem::write_byte
BankWrite ==
    /\ \E w \in BankWrites :
          /\ bus' = write_byte(bus, w[1], w[2])
          /\ last' = [op |-> "write", address |-> w[1], byte |-> w[2],
                      rom_bank |-> bus.cartridge.mbc1.rom_bank]
          /\ ghost' = [low5  |-> IF w[1] \in \h2000..\h3FFF THEN w[2] % 32 ELSE ghost.low5,
                       high2 |-> IF w[1] \in \h4000..\h5FFF THEN w[2] % 4 ELSE ghost.high2,
                       mode  |-> IF w[1] \in \h6000..\h7FFF THEN w[2] % 2 ELSE ghost.mode]
    /\ UNCHANGED <<cpu, timer, ppu, machine, build, ret>>

NextBank == BankWrite

SpecBank == InitBank /\ [][NextBank]_vars

\* the number of ROM banks of the cartridge
BankCount == bus.cartridge.rom_len \div ROM_BANK_SIZE

\* the bank the claim names for the window at 0x4000
BankAt4000 ==
    (ghost.high2 * 32 + (IF ghost.low5 # 0 THEN ghost.low5 ELSE 1)) % BankCount

\* the bank the claim names for the window at 0x0000
BankAt0000 == IF ghost.mode = 1 THEN (ghost.high2 * 32) % BankCount ELSE 0

\* the byte the image holds at the first and at the last address of a bank
BankByte(bank) == IF bank = 0 THEN 0 ELSE bank

\* C31: after any stores to the MBC1 registers, on every ROM size, a read in
\* 0x4000..0x7FFF returns the byte of bank ((high2 << 5) | (low5, or 1 if low5 = 0))
\* mod N, a read in 0x0000..0x3FFF the byte of bank (high2 << 5) mod N in mode 1 and of
\* bank 0 in mode 0, and each bank register holds the last value stored to it whatever
\* was stored to the other
C31_RomWindowsReadSelectedBank ==
    /\ read_byte(bus, \h4000) = BankByte(BankAt4000)
    /\ read_byte(bus, \h7FFF) = BankByte(BankAt4000)
    /\ read_byte(bus, \h3FFF) = BankByte(BankAt0000)
    /\ read_byte(bus, \h0147) = IF BankAt0000 = 0 THEN \h01 ELSE 0
    /\ rom_4000_index(bus.cartridge.mbc1, \h4000) = BankAt4000 * ROM_BANK_SIZE
    /\ rom_0000_index(bus.cartridge.mbc1, \h0000) = BankAt0000 * ROM_BANK_SIZE
    /\ bus.cartridge.mbc1.rom_bank % 32 = ghost.low5
    /\ bus.cartridge.mbc1.rom_bank \div 32 = ghost.high2
    /\ bus.cartridge.mbc1.mode_ram_banking = (ghost.mode = 1)

\* on the 64-bank cartridge in mode 1, after 0 was stored to the low bits and then 3 to
\* the high bits: the window at 0x4000 reads bank 0x61 mod 64 = 0x21 and the window at
\* 0x0000 bank 0x60 mod 64 = 0x20
C31_Witness ==
    /\ last.op = "write" /\ last.address = \h5FFF /\ last.byte = \hFF
    /\ BankCount = 64
    /\ ghost = [low5 |-> 0, high2 |-> 3, mode |-> 1]
    /\ last.rom_bank = 0
    /\ read_byte(bus, \h4000) = \h21
    /\ read_byte(bus, \h3FFF) = \h20

\* a store to the low bits made while the high bits hold 3 leaves them at 3
BankLowStoreKeepsHigh ==
    /\ last.op = "write" /\ last.address \in \h2000..\h3FFF
    /\ last.rom_bank \div 32 = 3
    /\ bus.cartridge.mbc1.rom_bank \div 32 = 3
    /\ bus.cartridge.mbc1.rom_bank % 32 # last.rom_bank % 32

(***************************************************************************)
(* MBC1 cartridges without RAM, with one and with four RAM banks: stores   *)
(* to the mapper's registers and to 0xA000..0xBFFF, and the reads there.   *)
(***************************************************************************)
\* bound: the stores to 0xA000..0xBFFF of one behaviour
MaxRamStores == 3

\* the RAM size codes of the headers: no RAM, 1 bank, 4 banks
RamSizes == {\h00, \h02, \h03}

\* the image of a cartridge of 4 ROM banks with the given RAM size
RamImage(code) ==
    (HEADER_TYPE :> \h03) @@ (HEADER_ROM_SIZE :> \h01) @@ (HEADER_RAM_SIZE :> code)

\* the stores to the registers: RAM enable with low nibble 0xA and with others, the
\* bank number, the banking mode
RamRegisterWrites ==
    {<<\h0000, \h0A>>, <<\h1FFF, \hFA>>, <<\h0000, \h00>>, <<\h1FFF, \h0B>>,
     <<\h0000, \hA0>>,
     <<\h4000, \h00>>, <<\h4000, \h01>>, <<\h5FFF, \h03>>,
     <<\h6000, \h00>>, <<\h7FFF, \h01>>}

\* the stores to the RAM window, at both of its ends
RamStores == {<<\hA000, \h11>>, <<\hBFFF, \h22>>, <<\hA000, \h33>>}

\* the addresses read in the RAM window
RamProbes == {\hA000, \hA001, \hBFFF}

\* ghost.enabled: whether the last store to 0x0000..0x1FFF had low nibble 0xA
InitRam ==
    /\ \E code \in RamSizes :
          bus = [MemorySystemDefault EXCEPT
                    !.cartridge = LoadedMbc1Cartridge(RamImage(code))]
    /\ cpu = CpuDefault
    /\ timer = TimerDefault
    /\ ppu = PpuDefault
    /\ machine = MachineDefault
    /\ build = "any"
    /\ ret = NoRet
    /\ last = NoCall
    /\ ghost = [enabled |-> FALSE, stores |-> 0]

\* a store of the CPU to a register of the mapper: MemorySystem::write_byte
RamRegisterWrite ==
    /\ \E w \in RamRegisterWrites :
          /\ bus' = write_byte(bus, w[1], w[2])
          /\ last' = [op |-> "write", address |-> w[1], byte |-> w[2], bus |-> bus]
          /\ ghost' = [ghost EXCEPT
                          !.enabled = IF w[1] <= \h1FFF THEN w[2] % 16 = \h0A ELSE @]
    /\ UNCHANGED <<cpu, timer, ppu, machine, build, ret>>

\* a store of the CPU to 0xA000..0xBFFF: MemorySystem::write_byte
RamStore ==
    /\ ghost.stores < MaxRamStores
    /\ \E w \in RamStores :
          /\ bus' = write_byte(bus, w[1], w[2])
          /\ last' = [op |-> "write", address |-> w[1], byte |-> w[2], bus |-> bus]
    /\ ghost' = [ghost EXCEPT !.stores = @ + 1]
    /\ UNCHANGED <<cpu, timer, ppu, machine, build, ret>>

NextRam == RamRegisterWrite \/ RamStore

SpecRam == InitRam /\ [][NextRam]_vars

\* the cartridge of bus `b` has RAM and the RAM is enabled
RamOpen(b) == b.cartridge.mbc1.ram_bank_count > 0 /\ b.cartridge.mbc1.ram_enabled

\* the bank the claim names for an access made on bus `b`
RamBankOf(b) ==
    IF b.cartridge.mbc1.mode_ram_banking
    THEN b.cartridge.mbc1.ram_bank % b.cartridge.mbc1.ram_bank_count
    ELSE 0

\* the cell of the cartridge RAM an access at `address` reaches on bus `b`
RamCell(b, address) == RamBankOf(b) * RAM_BANK_SIZE + (address - \hA000)

\* the store just made was to the RAM window
StoredToRam == last.op = "write" /\ last.address \in \hA000..\hBFFF

\* C32: the RAM is enabled exactly by a store to 0x0000..0x1FFF with low nibble 0xA;
\* disabled or absent, every read of 0xA000..0xBFFF returns 0xFF and a store changes no
\* RAM byte; enabled, a read returns the byte of bank 0 in mode 0 and of bank ram_bank
\* mod ram_bank_count in mode 1, a store is read back at its address and changes no
\* other cell, and a store to a register changes no RAM byte
C32_CartridgeRamGatedAndBanked ==
    /\ bus.cartridge.mbc1.ram_enabled = ghost.enabled
    /\ bus.cartridge.has_ram = (bus.cartridge.mbc1.ram_bank_count > 0)
    /\ \A address \in RamProbes :
          read_byte(bus, address) = IF RamOpen(bus)
                                    THEN Get(bus.cartridge.ram, RamCell(bus, address))
                                    ELSE \hFF
    /\ (last.op = "write" /\ ~StoredToRam) => bus.cartridge.ram = last.bus.cartridge.ram
    /\ (StoredToRam /\ ~RamOpen(last.bus)) => bus.cartridge.ram = last.bus.cartridge.ram
    /\ (StoredToRam /\ RamOpen(last.bus)) =>
          /\ read_byte(bus, last.address) = last.byte
          /\ bus.cartridge.ram = Put(last.bus.cartridge.ram,
                                     RamCell(last.bus, last.address), last.byte)
          /\ bus.cartridge.mbc1 = last.bus.cartridge.mbc1

\* with four banks in mode 1 and bank 3 selected, 0x22 stored at 0xBFFF reaches the last
\* cell of bank 3, while bank 0 keeps the 0x11 stored at 0xA000 in mode 0
C32_Witness ==
    /\ StoredToRam /\ last.address = \hBFFF
    /\ RamOpen(bus)
    /\ bus.cartridge.mbc1.ram_bank_count = 4
    /\ RamBankOf(bus) = 3
    /\ Get(bus.cartridge.ram, 4 * RAM_BANK_SIZE - 1) = \h22
    /\ Get(bus.cartridge.ram, 0) = \h11
    /\ read_byte(bus, \hBFFF) = \h22
    /\ read_byte(bus, \hA000) = 0

\* a store made while the RAM is disabled, over a cell that holds a byte
RamStoreIgnored ==
    /\ StoredToRam /\ last.address = \hA000 /\ last.byte = \h33
    /\ ~bus.cartridge.mbc1.ram_enabled
    /\ Get(bus.cartridge.ram, 0) = \h11
    /\ read_byte(bus, \hA000) = \hFF

\* a store made to a cartridge without RAM, with the enable register set
RamStoreAbsent ==
    /\ StoredToRam
    /\ bus.cartridge.mbc1.ram_enabled /\ ~bus.cartridge.has_ram
    /\ read_byte(bus, \hA000) = \hFF

(***************************************************************************)
(* The PPU with the LCD on, advanced line after line from line 0 and from  *)
(* line 142 into the V-Blank lines, with the CPU storing to LYC, STAT and  *)
(* IF on the way.                                                          *)
(***************************************************************************)
\* bound: the cycles the PPU is advanced by in one behaviour
MaxLineCycles == 1224

\* bound: the stores of the CPU in one behaviour
MaxLineWrites == 2

\* the cycle counts handed to Ppu::update: an instruction's, and the two line lengths
LineCycles == {12, 204, 456}

\* the stores of the CPU: a line number into LYC, the LYC interrupt selected in STAT,
\* and IF cleared
LineWrites == {<<LYC_ADDR, 1>>, <<LYC_ADDR, 146>>, <<STAT_ADDR, \h40>>, <<IF_ADDR, \h00>>}

\* the lines the PPU is advanced from
LineStarts == {0, 142}

\* Machine::default() with a cartridge, after the CPU has stored the line to start
\* from into LY and switched the LCD on
InitLine ==
    /\ \E start \in LineStarts :
          bus = write_byte(write_byte([MemorySystemDefault EXCEPT
                                          !.cartridge = LoadedCartridge(EmptyArr)],
                                      LY_ADDR, start),
                           LCDC_ADDR, \h80)
    /\ cpu = CpuDefault
    /\ timer = TimerDefault
    /\ ppu = PpuDefault
    /\ machine = MachineDefault
    /\ build = "any"
    /\ ret = NoRet
    /\ last = NoCall
    /\ ghost = [start |-> ly(bus), cycles |-> 0, writes |-> 0]

\* Ppu::update(&mut bus, cycles); ghost.cycles adds up the cycles of the updates
LineUpdate ==
    /\ Running
    /\ \E cycles \in LineCycles :
          /\ ghost.cycles + cycles <= MaxLineCycles
          /\ \E out \in {ppu_update(ppu, bus, cycles)} :
             \E bld \in Builds(out) :
             \E overflowed \in {out.ovf /\ bld = "debug"} :
                /\ build' = bld
                /\ ppu' = IF overflowed THEN out.at.ppu ELSE out.ppu
                /\ bus' = IF overflowed THEN out.at.bus ELSE out.bus
                /\ ret' = IF overflowed \/ out.panic # "none"
                          THEN [kind |-> "panic", value |-> 0]
                          ELSE [kind |-> "Ok", value |-> 0]
          /\ last' = [op |-> "update", cycles |-> cycles, bus |-> bus]
          /\ ghost' = [ghost EXCEPT !.cycles = @ + cycles]
    /\ UNCHANGED <<machine, cpu, timer>>

\* a store of the CPU: MemorySystem::write_byte
LineWrite ==
    /\ Running
    /\ ghost.writes < MaxLineWrites
    /\ \E w \in LineWrites :
          /\ bus' = write_byte(bus, w[1], w[2])
          /\ last' = [op |-> "write", address |-> w[1], byte |-> w[2], bus |-> bus]
    /\ ghost' = [ghost EXCEPT !.writes = @ + 1]
    /\ UNCHANGED <<machine, cpu, timer, ppu, build, ret>>

NextLine == LineUpdate \/ LineWrite

SpecLine == InitLine /\ [][NextLine]_vars

\* C33: with the LCD on and no store of the CPU to LY since, LY has gone up by 1, from 153
\* to 0, for every 456 cycles the PPU has been advanced by, however the cycles were
\* split over the updates
C33_LineEvery456Cycles ==
    Running => ly(bus) = (ghost.start + ghost.cycles \div 456) % 154

\* with the mode bits of STAT left at 0, LY has gone up by 1 for every 204 cycles the
\* PPU has been advanced by, and mode_clock holds the cycles of the line begun
LineEvery204Cycles ==
    Running => /\ ly(bus) = ghost.start + ghost.cycles \div 204
               /\ ppu.mode_clock = ghost.cycles % 204

\* after one update of 204 cycles from line 0 LY reads 1
LineEndedAt204 ==
    /\ Running /\ last.op = "update"
    /\ ghost.start = 0 /\ ghost.cycles = 204
    /\ ly(bus) = 1

\* the Ppu::update just made returned
LineUpdated == last.op = "update" /\ Running

\* the Ppu::update just made set the VBLANK bit of IF, clear before it
VblankRaised ==
    /\ BitAnd(interrupt_flag(last.bus), VBLANK) = 0
    /\ BitAnd(interrupt_flag(bus), VBLANK) # 0

\* the Ppu::update just made took LY from a line up to 143 to line 144 or past it
EnteredLine144 == ly(last.bus) <= 143 /\ ly(bus) >= 144

\* C34: VBLANK is raised by the updates that take LY from 143 to 144 and by no other;
\* on lines 144..153 the mode bits of STAT read 01, and on lines 0..143 they do not
C34_VblankAtLine144 ==
    /\ LineUpdated => (VblankRaised => EnteredLine144)
    /\ LineUpdated => (EnteredLine144 => BitAnd(interrupt_flag(bus), VBLANK) # 0)
    /\ (Running /\ ly(bus) \in 144..153) => stat(bus) % 4 = 1
    /\ (Running /\ ly(bus) \in 0..143) => stat(bus) % 4 # 1

\* VBLANK is raised by the updates that take LY from 143 to 144 and by no other, and
\* the mode bits of STAT read 00 on every line: at line 144 STAT is stored as 0x10
VblankRaisedModeKept ==
    /\ LineUpdated => (VblankRaised => EnteredLine144)
    /\ LineUpdated => (EnteredLine144 => BitAnd(interrupt_flag(bus), VBLANK) # 0)
    /\ stat(bus) % 4 = 0
    /\ (LineUpdated /\ EnteredLine144) => stat(bus) = STAT_VBLANK_INTERRUPT

\* an update has taken LY to 144 and raised VBLANK, and STAT reads 0x10
LineEnteredVblank ==
    /\ LineUpdated /\ EnteredLine144 /\ VblankRaised
    /\ ly(bus) = 144
    /\ stat(bus) = \h10

\* a later update on the V-Blank lines, with IF cleared by the CPU, raises nothing
LineStayedInVblank ==
    /\ LineUpdated
    /\ ly(last.bus) = 144 /\ ly(bus) = 145
    /\ interrupt_flag(bus) % 32 = 0

\* the LYC_EQUAL bit of STAT says whether LY and LYC are equal
LycFlagRight(b) == contains(stat(b), STAT_LYC_EQUAL) = (ly(b) = lyc(b))

\* the store just made was to LYC
LycStored == last.op = "write" /\ last.address = LYC_ADDR

\* the Ppu::update just made, returned or not, stored a new line into LY
LineChanged == last.op = "update" /\ ly(bus) # ly(last.bus)

\* C35: an update that changes LY, and a store to LYC, complete with STAT.LYC_EQUAL
\* saying whether LY = LYC; an update that brings LY to LYC with STAT.LYC_INTERRUPT set
\* raises LCD_STAT; a store to LYC leaves LY as it was
C35_LycFlagFollowsLy ==
    /\ LineChanged => (Running /\ LycFlagRight(bus))
    /\ LycStored => (LycFlagRight(bus) /\ ly(bus) = ly(last.bus))
    /\ (LineChanged /\ ly(bus) = lyc(bus) /\ contains(stat(last.bus), STAT_LYC_INTERRUPT))
          => BitAnd(interrupt_flag(bus), LCD_STAT) # 0

\* a store to LYC changes the byte at 0xFF45 and nothing else, LY and STAT included; an
\* update that brings LY to LYC ends in the `todo!()` of set_ly with STAT and IF as
\* they were, and one that does not leaves LYC_EQUAL as it was
LycFlagNeverStored ==
    /\ LycStored => bus = [last.bus EXCEPT !.io_regs = bus.io_regs]
    /\ LycStored => /\ ly(bus) = ly(last.bus)
                    /\ stat(bus) = stat(last.bus)
                    /\ lyc(bus) = last.byte
    /\ LineChanged => (~Running <=> ly(bus) = lyc(bus))
    /\ (LineChanged /\ ~Running /\ ly(bus) = ly(last.bus) + 1)
          => /\ stat(bus) = stat(last.bus)
             /\ interrupt_flag(bus) = interrupt_flag(last.bus)
    /\ ~contains(stat(bus), STAT_LYC_EQUAL)

\* the CPU stored 0x40 to STAT and 1 to LYC, and the update that took LY from 0 to 1
\* ended in the `todo!()` with LCD_STAT not raised
LineReachedLyc ==
    /\ LineChanged /\ ~Running
    /\ ly(last.bus) = 0 /\ ly(bus) = 1 /\ lyc(bus) = 1
    /\ stat(bus) = \h40
    /\ interrupt_flag(bus) % 32 = 0

\* the CPU stored into LYC the line LY holds, and LYC_EQUAL stays clear
LycStoredAtLine ==
    /\ LycStored /\ Running
    /\ ly(bus) = 1 /\ lyc(bus) = 1
    /\ ~contains(stat(bus), STAT_LYC_EQUAL)

(***************************************************************************)
(* SUB n and CP n, executed by Cpu::step from a cartridge image that holds *)
(* the instruction at 0x0100, for every A and n.                           *)
(***************************************************************************)
\* CP n
CP_N == \hFE

\* the image that holds the instruction at the entry point
SubImage(opcode, n) ==
    (\h0100 :> opcode) @@ (IF n = 0 THEN EmptyArr ELSE (\h0101 :> n))

InitSub ==
    /\ \E a0 \in AluBytes, n \in AluBytes, opcode \in {SUB_N, CP_N} :
          /\ cpu = set_a(CpuDefault, a0)
          /\ bus = [MemorySystemDefault EXCEPT
                       !.cartridge = LoadedCartridge(SubImage(opcode, n))]
          /\ ghost = [steps |-> 0, a |-> a0, n |-> n, opcode |-> opcode]
    /\ timer = TimerDefault
    /\ ppu = PpuDefault
    /\ machine = MachineDefault
    /\ build = "any"
    /\ ret = NoRet
    /\ last = NoCall

\* Cpu::step: the first call
SubStep ==
    /\ ghost.steps = 0
    /\ \E out \in {cpu_step(cpu, bus)} :
          /\ cpu' = out.cpu
          /\ bus' = out.bus
          /\ ret' = step_ret(out, build)
          /\ last' = [op |-> "step", opcode |-> read_byte(bus, cpu.pc)]
    /\ ghost' = [ghost EXCEPT !.steps = 1]
    /\ UNCHANGED <<timer, ppu, machine, build>>

NextSub == SubStep

SpecSub == InitSub /\ [][NextSub]_vars

\* the difference the instruction computes
SubResult == (ghost.a + 256 - ghost.n) % 256

\* the flags Z, N, H and C of the CPU, in this order
FlagsZNHC == <<flag(cpu, FlagZ), flag(cpu, FlagN), flag(cpu, FlagH), flag(cpu, FlagC)>>

\* C36: for every a and b, SUB and CP leave Z = ((a - b) mod 256 = 0), N = 1,
\* H = ((a & 0xF) < (b & 0xF)) and C = (a < b); SUB leaves A = (a - b) mod 256 and CP
\* leaves A = a
C36_SubCpFlags ==
    ghost.steps = 1 =>
        /\ ret.kind = "Ok"
        /\ FlagsZNHC = <<SubResult = 0, TRUE, ghost.a % 16 < ghost.n % 16, ghost.a < ghost.n>>
        /\ a(cpu) = IF ghost.opcode = SUB_N THEN SubResult ELSE ghost.a

\* SUB and CP both leave the difference in A, and H and C compare the difference, not
\* a, with b
SubCpCompareResult ==
    ghost.steps = 1 =>
        /\ ret.kind = "Ok"
        /\ FlagsZNHC = <<SubResult = 0, TRUE, SubResult % 16 < ghost.n % 16,
                         SubResult < ghost.n>>
        /\ a(cpu) = SubResult

\* 3 - 2: SUB leaves A = 1 with H and C set
SubSetsCarryWithoutBorrow ==
    /\ ghost.steps = 1 /\ ghost.opcode = SUB_N
    /\ ghost.a = 3 /\ ghost.n = 2
    /\ a(cpu) = 1
    /\ FlagsZNHC = <<FALSE, TRUE, TRUE, TRUE>>

\* 0x10 - 0x20: CP leaves A = 0xF0 with C clear
CpStoresDifference ==
    /\ ghost.steps = 1 /\ ghost.opcode = CP_N
    /\ ghost.a = \h10 /\ ghost.n = \h20
    /\ a(cpu) = \hF0
    /\ FlagsZNHC = <<FALSE, TRUE, FALSE, FALSE>>

(***************************************************************************)
(* INC and DEC of an 8-bit register and of a register pair, executed by    *)
(* Cpu::step from a cartridge image that holds the instruction at 0x0100.  *)
(***************************************************************************)
\* INC B, DEC B, INC A, DEC A
IncDec8Opcodes == {\h04, \h05, \h3C, \h3D}

\* INC BC, DEC BC, INC HL, DEC HL, INC SP, DEC SP
IncDec16Opcodes == {\h03, \h0B, \h23, \h2B, \h33, \h3B}

\* the flags before the instruction: none, C alone, all but C, all
IncDecFlags == {\h00, \h10, \hE0, \hF0}

\* the values of a register pair before the instruction
IncDecWords == {\h0000, \h0001, \h00FF, \h0FFF, \h1234, \hFF00, \hFFFF}

\* the operand an opcode names: bits 3..5 for a register, bits 4..5 for a pair
IncDecOperand(opcode) ==
    CASE opcode \in {\h04, \h05} -> "B"
      [] opcode \in {\h3C, \h3D} -> "A"
      [] opcode \in {\h03, \h0B} -> "BC"
      [] opcode \in {\h23, \h2B} -> "HL"
      [] opcode \in {\h33, \h3B} -> "SP"

\* the opcode is an INC
IsInc(opcode) == opcode \in {\h04, \h3C, \h03, \h23, \h33}

\* the CPU with `value` in the operand
with_operand(c, operand, value) ==
    CASE operand \in {"A", "B"} -> set_reg8(c, operand, value)
      [] operand = "BC" -> [c EXCEPT !.bc = value]
      [] operand = "HL" -> [c EXCEPT !.hl = value]
      [] operand = "SP" -> [c EXCEPT !.sp = value]

\* the value the CPU holds in the operand
operand_of(c, operand) ==
    CASE operand \in {"A", "B"} -> reg8(c, operand)
      [] operand = "BC" -> c.bc
      [] operand = "HL" -> c.hl
      [] operand = "SP" -> c.sp

InitIncDec ==
    /\ \E opcode \in IncDec8Opcodes \cup IncDec16Opcodes :
       \E value \in (IF opcode \in IncDec8Opcodes THEN AluBytes ELSE IncDecWords) :
       \E flags \in IncDecFlags :
          /\ cpu = with_operand(set_f(CpuDefault, flags), IncDecOperand(opcode), value)
          /\ ghost = [steps |-> 0, opcode |-> opcode, value |-> value, flags |-> flags]
          /\ bus = [MemorySystemDefault EXCEPT
                       !.cartridge = LoadedCartridge(\h0100 :> opcode)]
    /\ timer = TimerDefault
    /\ ppu = PpuDefault
    /\ machine = MachineDefault
    /\ build = "any"
    /\ ret = NoRet
    /\ last = NoCall

\* Cpu::step: the first call
IncDecStep ==
    /\ ghost.steps = 0
    /\ \E out \in {cpu_step(cpu, bus)} :
          /\ cpu' = out.cpu
          /\ bus' = out.bus
          /\ ret' = step_ret(out, build)
          /\ last' = [op |-> "step", opcode |-> read_byte(bus, cpu.pc)]
    /\ ghost' = [ghost EXCEPT !.steps = 1]
    /\ UNCHANGED <<timer, ppu, machine, build>>

NextIncDec == IncDecStep

SpecIncDec == InitIncDec /\ [][NextIncDec]_vars

\* the instruction has been executed on an 8-bit register, on a register pair
Stepped8 == ghost.steps = 1 /\ ghost.opcode \in IncDec8Opcodes
Stepped16 == ghost.steps = 1 /\ ghost.opcode \in IncDec16Opcodes

\* the operand after the instruction, within `width` bits
IncDecResult(modulus) ==
    (ghost.value + (IF IsInc(ghost.opcode) THEN 1 ELSE modulus - 1)) % modulus

\* Z from the result, N = 0 for INC and 1 for DEC, H from the low nibble
IncDecZNH ==
    /\ operand_of(cpu, IncDecOperand(ghost.opcode)) = IncDecResult(256)
    /\ flag(cpu, FlagZ) = (IncDecResult(256) = 0)
    /\ flag(cpu, FlagN) = ~IsInc(ghost.opcode)
    /\ flag(cpu, FlagH) = (ghost.value % 16 = IF IsInc(ghost.opcode) THEN 15 ELSE 0)

\* C37: INC r8 and DEC r8 leave C as it was, set Z from the result, N to 0 (INC) or 1
\* (DEC) and H from the low nibble; INC r16 and DEC r16 change no flag
C37_IncDecKeepCarry ==
    /\ Stepped8 => /\ ret.kind = "Ok"
                   /\ IncDecZNH
                   /\ flag(cpu, FlagC) = (BitAnd(ghost.flags, FlagC) # 0)
                   /\ f(cpu) % 16 = 0
    /\ Stepped16 => /\ ret.kind = "Ok"
                    /\ operand_of(cpu, IncDecOperand(ghost.opcode)) = IncDecResult(65536)
                    /\ f(cpu) = ghost.flags

\* DEC r8 leaves C as it was and INC r8 clears it; Z, N and H are as stated; INC and
\* DEC of BC and HL change no flag, and INC SP and DEC SP end in the `unreachable!()` of
\* read_operand_value_u16 with nothing changed but PC
IncClearsCarry ==
    /\ Stepped8 => /\ ret.kind = "Ok"
                   /\ IncDecZNH
                   /\ flag(cpu, FlagC) = (~IsInc(ghost.opcode) /\ BitAnd(ghost.flags, FlagC) # 0)
                   /\ f(cpu) % 16 = 0
    /\ (Stepped16 /\ IncDecOperand(ghost.opcode) # "SP") =>
          /\ ret.kind = "Ok"
          /\ operand_of(cpu, IncDecOperand(ghost.opcode)) = IncDecResult(65536)
          /\ f(cpu) = ghost.flags
    /\ (Stepped16 /\ IncDecOperand(ghost.opcode) = "SP") =>
          /\ ret.kind = "panic"
          /\ cpu.sp = ghost.value
          /\ f(cpu) = ghost.flags

\* INC B on B = 0x0F with C alone set: B = 0x10, H set and C cleared
IncLostCarry ==
    /\ Stepped8 /\ ghost.opcode = \h04 /\ ghost.value = \h0F /\ ghost.flags = \h10
    /\ reg8(cpu, "B") = \h10
    /\ f(cpu) = \h20

\* DEC A on A = 0x01 with C alone set: A = 0, Z and N set, C kept
DecKeptCarry ==
    /\ Stepped8 /\ ghost.opcode = \h3D /\ ghost.value = \h01 /\ ghost.flags = \h10
    /\ a(cpu) = 0
    /\ f(cpu) = \hD0

\* INC HL on HL = 0xFFFF with every flag set: HL = 0 and F as it was
IncPairKeptFlags ==
    /\ Stepped16 /\ ghost.opcode = \h23 /\ ghost.value = \hFFFF /\ ghost.flags = \hF0
    /\ ret.kind = "Ok"
    /\ cpu.hl = 0
    /\ f(cpu) = \hF0

\* INC SP has panicked
IncSpPanicked ==
    /\ Stepped16 /\ ghost.opcode = \h33 /\ ghost.value = \hFFFF
    /\ ret.kind = "panic"
    /\ cpu.sp = \hFFFF

(***************************************************************************)
(* Instruction::execute_cb on the rotates and shifts of register B, for    *)
(* every value of B and either carry, as the instruction tests call it.    *)
(***************************************************************************)
\* the rotate and shift operations of execute_cb
RotOperations == {"RLC", "RRC", "RL", "RR", "SLA", "SRA", "SRL"}

\* the byte an arm of execute_cb writes to its operand
cb_rot_result(operation, val, carry) ==
    CASE operation = "RLC" -> Wrap8(val * 2) + (val \div 128)
      [] operation = "RRC" -> (val \div 2) + (val % 2) * 128
      [] operation = "RL"  -> BitOr(Wrap8(val * 2), carry)
      [] operation = "RR"  -> BitOr(val \div 2, carry * 128)
      [] operation = "SLA" -> Wrap8(val * 2)
      [] operation = "SRA" -> BitOr(val \div 2, (val % 2) * 128)
      [] operation = "SRL" -> val \div 2

\* the condition an arm of execute_cb hands to set_flag_if(Flags::C, ..)
cb_rot_carry(operation, val) ==
    CASE operation \in {"RLC", "RR", "SRA", "SRL"} -> val % 2 # 0
      [] operation \in {"RRC", "RL", "SLA"} -> BitAnd(val, \h80) # 0

\* Instruction::execute_cb, the arms RLC, RRC, RL, RR, SLA, SRA and SRL
exec_cb_rot(i, c, b, data) ==
    LET val == read_operand_value_u8(c, b, data, i.op1)
        result == cb_rot_result(i.operation, val, IF flag(c, FlagC) THEN 1 ELSE 0)
        w == write_to_operand_u8(c, b, data, i.op1, result)
        c1 == clear_flag(set_flag_if(w.cpu, FlagZ, result = 0), FlagN + FlagH)
    IN  Ok(set_flag_if(c1, FlagC, cb_rot_carry(i.operation, val)), w.bus, i.cycles)

InitRot ==
    /\ \E operation \in RotOperations, value \in AluBytes, flags \in IncDecFlags :
          /\ cpu = set_reg8(set_f(CpuDefault, flags), "B", value)
          /\ ghost = [steps |-> 0, operation |-> operation, value |-> value,
                      flags |-> flags]
    /\ bus = MemorySystemDefault
    /\ timer = TimerDefault
    /\ ppu = PpuDefault
    /\ machine = MachineDefault
    /\ build = "any"
    /\ ret = NoRet
    /\ last = NoCall

\* Instruction::from(operation(B), 0, 0, 0).execute_cb(&mut cpu, &mut bus, vec![])
RotExecute ==
    /\ ghost.steps = 0
    /\ \E out \in {exec_cb_rot(I1(ghost.operation, "B", 0, 0), cpu, bus, <<>>)} :
          /\ cpu' = out.cpu
          /\ bus' = out.bus
          /\ ret' = [kind |-> "Ok", value |-> out.ret]
          /\ last' = [op |-> "execute_cb", operation |-> ghost.operation]
    /\ ghost' = [ghost EXCEPT !.steps = 1]
    /\ UNCHANGED <<timer, ppu, machine, build>>

NextRot == RotExecute

SpecRot == InitRot /\ [][NextRot]_vars

\* the carry before the instruction, as a bit
RotCarryIn == IF BitAnd(ghost.flags, FlagC) # 0 THEN 1 ELSE 0

\* the reference result: RLC and RRC rotate within the byte, RL and RR shift the old
\* carry in, SLA shifts 0 in, SRA keeps bit 7, SRL clears it
RotReference ==
    CASE ghost.operation = "RLC" -> ((ghost.value * 2) % 256) + (ghost.value \div 128)
      [] ghost.operation = "RRC" -> (ghost.value \div 2) + (ghost.value % 2) * 128
      [] ghost.operation = "RL"  -> ((ghost.value * 2) % 256) + RotCarryIn
      [] ghost.operation = "RR"  -> (ghost.value \div 2) + RotCarryIn * 128
      [] ghost.operation = "SLA" -> (ghost.value * 2) % 256
      [] ghost.operation = "SRA" -> (ghost.value \div 2) + (ghost.value \div 128) * 128
      [] ghost.operation = "SRL" -> ghost.value \div 2

\* the bit shifted out: the old bit 7 of the left forms, the old bit 0 of the right ones
RotEjected ==
    IF ghost.operation \in {"RLC", "RL", "SLA"} THEN ghost.value \div 128
    ELSE ghost.value % 2

\* C38: for every operand and carry-in, each rotate and shift writes the reference
\* result, sets C to the bit shifted out, Z exactly when the result is 0, and clears N
\* and H
C38_RotatesMatchReference ==
    ghost.steps = 1 =>
        /\ reg8(cpu, "B") = RotReference
        /\ f(cpu) = (IF RotReference = 0 THEN FlagZ ELSE 0)
                    + (IF RotEjected = 1 THEN FlagC ELSE 0)

\* RL, RR, SLA and SRL match the reference; RLC and RRC write the reference result and
\* set C to the bit at the other end of the byte; SRA writes bit 0 into bit 7; Z is set
\* exactly when the byte written is 0, and N and H are cleared
RotatesAsCoded ==
    ghost.steps = 1 =>
        /\ ghost.operation \in {"RL", "RR", "SLA", "SRL", "RLC", "RRC"}
              => reg8(cpu, "B") = RotReference
        /\ ghost.operation = "SRA"
              => reg8(cpu, "B") = (ghost.value \div 2) + (ghost.value % 2) * 128
        /\ flag(cpu, FlagZ) = (reg8(cpu, "B") = 0)
        /\ ~flag(cpu, FlagN) /\ ~flag(cpu, FlagH)
        /\ f(cpu) % 16 = 0
        /\ flag(cpu, FlagC) = CASE ghost.operation = "RLC" -> ghost.value % 2 = 1
                                [] ghost.operation = "RRC" -> ghost.value \div 128 = 1
                                [] OTHER -> RotEjected = 1

\* RLC on 0x80: B = 0x01 with C clear
RlcLostCarry ==
    /\ ghost.steps = 1 /\ ghost.operation = "RLC" /\ ghost.value = \h80
    /\ ghost.flags = 0
    /\ reg8(cpu, "B") = \h01
    /\ f(cpu) = 0

\* SRA on 0x80: B = 0x40, the sign bit lost
SraLostSign ==
    /\ ghost.steps = 1 /\ ghost.operation = "SRA" /\ ghost.value = \h80
    /\ ghost.flags = 0
    /\ reg8(cpu, "B") = \h40
    /\ f(cpu) = 0

\* RL on 0x80 with C set: B = 0x01 and C set
RlThroughCarry ==
    /\ ghost.steps = 1 /\ ghost.operation = "RL" /\ ghost.value = \h80
    /\ ghost.flags = \h10
    /\ reg8(cpu, "B") = \h01
    /\ f(cpu) = \h10

(***************************************************************************)
(* The primary decode table against the table of the decoder tests, one    *)
(* opcode at a time.                                                       *)
(***************************************************************************)
\* MAIN_INSTR_SPECS: for opcode k, entry k + 1 is <<size, cycles, cycles not taken,
\* described as an instruction>>; the last field is FALSE where the description is
\* INVALID_OPCODE_DESC
MAIN_INSTR_SPECS ==
    << <<1, 4, 0, TRUE>>, <<3, 12, 0, TRUE>>, <<1, 8, 0, TRUE>>, <<1, 8, 0, TRUE>>,
       <<1, 4, 0, TRUE>>, <<1, 4, 0, TRUE>>, <<2, 8, 0, TRUE>>, <<1, 4, 0, TRUE>>,
       <<3, 20, 0, TRUE>>, <<1, 8, 0, TRUE>>, <<1, 8, 0, TRUE>>, <<1, 8, 0, TRUE>>,
       <<1, 4, 0, TRUE>>, <<1, 4, 0, TRUE>>, <<2, 8, 0, TRUE>>, <<1, 4, 0, TRUE>>,
       <<1, 4, 0, TRUE>>, <<3, 12, 0, TRUE>>, <<1, 8, 0, TRUE>>, <<1, 8, 0, TRUE>>,
       <<1, 4, 0, TRUE>>, <<1, 4, 0, TRUE>>, <<2, 8, 0, TRUE>>, <<1, 4, 0, TRUE>>,
       <<2, 12, 0, TRUE>>, <<1, 8, 0, TRUE>>, <<1, 8, 0, TRUE>>, <<1, 8, 0, TRUE>>,
       <<1, 4, 0, TRUE>>, <<1, 4, 0, TRUE>>, <<2, 8, 0, TRUE>>, <<1, 4, 0, TRUE>>,
       <<2, 12, 8, TRUE>>, <<3, 12, 0, TRUE>>, <<1, 8, 0, TRUE>>, <<1, 8, 0, TRUE>>,
       <<1, 4, 0, TRUE>>, <<1, 4, 0, TRUE>>, <<2, 8, 0, TRUE>>, <<1, 4, 0, TRUE>>,
       <<2, 12, 8, TRUE>>, <<1, 8, 0, TRUE>>, <<1, 8, 0, TRUE>>, <<1, 8, 0, TRUE>>,
       <<1, 4, 0, TRUE>>, <<1, 4, 0, TRUE>>, <<2, 8, 0, TRUE>>, <<1, 4, 0, TRUE>>,
       <<2, 12, 8, TRUE>>, <<3, 12, 0, TRUE>>, <<1, 8, 0, TRUE>>, <<1, 8, 0, TRUE>>,
       <<1, 12, 0, TRUE>>, <<1, 12, 0, TRUE>>, <<2, 12, 0, TRUE>>, <<1, 4, 0, TRUE>>,
       <<2, 12, 8, TRUE>>, <<1, 8, 0, TRUE>>, <<1, 8, 0, TRUE>>, <<1, 8, 0, TRUE>>,
       <<1, 4, 0, TRUE>>, <<1, 4, 0, TRUE>>, <<2, 8, 0, TRUE>>, <<1, 4, 0, TRUE>>,
       <<1, 4, 0, TRUE>>, <<1, 4, 0, TRUE>>, <<1, 4, 0, TRUE>>, <<1, 4, 0, TRUE>>,
       <<1, 4, 0, TRUE>>, <<1, 4, 0, TRUE>>, <<1, 8, 0, TRUE>>, <<1, 4, 0, TRUE>>,
       <<1, 4, 0, TRUE>>, <<1, 4, 0, TRUE>>, <<1, 4, 0, TRUE>>, <<1, 4, 0, TRUE>>,
       <<1, 4, 0, TRUE>>, <<1, 4, 0, TRUE>>, <<1, 8, 0, TRUE>>, <<1, 4, 0, TRUE>>,
       <<1, 4, 0, TRUE>>, <<1, 4, 0, TRUE>>, <<1, 4, 0, TRUE>>, <<1, 4, 0, TRUE>>,
       <<1, 4, 0, TRUE>>, <<1, 4, 0, TRUE>>, <<1, 8, 0, TRUE>>, <<1, 4, 0, TRUE>>,
       <<1, 4, 0, TRUE>>, <<1, 4, 0, TRUE>>, <<1, 4, 0, TRUE>>, <<1, 4, 0, TRUE>>,
       <<1, 4, 0, TRUE>>, <<1, 4, 0, TRUE>>, <<1, 8, 0, TRUE>>, <<1, 4, 0, TRUE>>,
       <<1, 4, 0, TRUE>>, <<1, 4, 0, TRUE>>, <<1, 4, 0, TRUE>>, <<1, 4, 0, TRUE>>,
       <<1, 4, 0, TRUE>>, <<1, 4, 0, TRUE>>, <<1, 8, 0, TRUE>>, <<1, 4, 0, TRUE>>,
       <<1, 4, 0, TRUE>>, <<1, 4, 0, TRUE>>, <<1, 4, 0, TRUE>>, <<1, 4, 0, TRUE>>,
       <<1, 4, 0, TRUE>>, <<1, 4, 0, TRUE>>, <<1, 8, 0, TRUE>>, <<1, 4, 0, TRUE>>,
       <<1, 8, 0, TRUE>>, <<1, 8, 0, TRUE>>, <<1, 8, 0, TRUE>>, <<1, 8, 0, TRUE>>,
       <<1, 8, 0, TRUE>>, <<1, 8, 0, TRUE>>, <<1, 4, 0, TRUE>>, <<1, 8, 0, TRUE>>,
       <<1, 4, 0, TRUE>>, <<1, 4, 0, TRUE>>, <<1, 4, 0, TRUE>>, <<1, 4, 0, TRUE>>,
       <<1, 4, 0, TRUE>>, <<1, 4, 0, TRUE>>, <<1, 8, 0, TRUE>>, <<1, 4, 0, TRUE>>,
       <<1, 4, 0, TRUE>>, <<1, 4, 0, TRUE>>, <<1, 4, 0, TRUE>>, <<1, 4, 0, TRUE>>,
       <<1, 4, 0, TRUE>>, <<1, 4, 0, TRUE>>, <<1, 8, 0, TRUE>>, <<1, 4, 0, TRUE>>,
       <<1, 4, 0, TRUE>>, <<1, 4, 0, TRUE>>, <<1, 4, 0, TRUE>>, <<1, 4, 0, TRUE>>,
       <<1, 4, 0, TRUE>>, <<1, 4, 0, TRUE>>, <<1, 8, 0, TRUE>>, <<1, 4, 0, TRUE>>,
       <<1, 4, 0, TRUE>>, <<1, 4, 0, TRUE>>, <<1, 4, 0, TRUE>>, <<1, 4, 0, TRUE>>,
       <<1, 4, 0, TRUE>>, <<1, 4, 0, TRUE>>, <<1, 8, 0, TRUE>>, <<1, 4, 0, TRUE>>,
       <<1, 4, 0, TRUE>>, <<1, 4, 0, TRUE>>, <<1, 4, 0, TRUE>>, <<1, 4, 0, TRUE>>,
       <<1, 4, 0, TRUE>>, <<1, 4, 0, TRUE>>, <<1, 8, 0, TRUE>>, <<1, 4, 0, TRUE>>,
       <<1, 4, 0, TRUE>>, <<1, 4, 0, TRUE>>, <<1, 4, 0, TRUE>>, <<1, 4, 0, TRUE>>,
       <<1, 4, 0, TRUE>>, <<1, 4, 0, TRUE>>, <<1, 8, 0, TRUE>>, <<1, 4, 0, TRUE>>,
       <<1, 4, 0, TRUE>>, <<1, 4, 0, TRUE>>, <<1, 4, 0, TRUE>>, <<1, 4, 0, TRUE>>,
       <<1, 4, 0, TRUE>>, <<1, 4, 0, TRUE>>, <<1, 8, 0, TRUE>>, <<1, 4, 0, TRUE>>,
       <<1, 4, 0, TRUE>>, <<1, 4, 0, TRUE>>, <<1, 4, 0, TRUE>>, <<1, 4, 0, TRUE>>,
       <<1, 4, 0, TRUE>>, <<1, 4, 0, TRUE>>, <<1, 8, 0, TRUE>>, <<1, 4, 0, TRUE>>,
       <<1, 4, 0, TRUE>>, <<1, 4, 0, TRUE>>, <<1, 4, 0, TRUE>>, <<1, 4, 0, TRUE>>,
       <<1, 4, 0, TRUE>>, <<1, 4, 0, TRUE>>, <<1, 8, 0, TRUE>>, <<1, 4, 0, TRUE>>,
       <<1, 20, 8, TRUE>>, <<1, 12, 0, TRUE>>, <<3, 16, 12, TRUE>>, <<3, 16, 0, TRUE>>,
       <<3, 24, 12, TRUE>>, <<1, 16, 0, TRUE>>, <<2, 8, 0, TRUE>>, <<1, 16, 0, TRUE>>,
       <<1, 20, 8, TRUE>>, <<1, 16, 0, TRUE>>, <<3, 16, 12, TRUE>>, <<1, 4, 0, TRUE>>,
       <<3, 24, 12, TRUE>>, <<3, 24, 0, TRUE>>, <<2, 8, 0, TRUE>>, <<1, 16, 0, TRUE>>,
       <<1, 20, 8, TRUE>>, <<1, 12, 0, TRUE>>, <<3, 16, 12, TRUE>>, <<1, 0, 0, FALSE>>,
       <<3, 24, 12, TRUE>>, <<1, 16, 0, TRUE>>, <<2, 8, 0, TRUE>>, <<1, 16, 0, TRUE>>,
       <<1, 20, 8, TRUE>>, <<1, 16, 0, TRUE>>, <<3, 16, 12, TRUE>>, <<1, 0, 0, FALSE>>,
       <<3, 24, 12, TRUE>>, <<1, 0, 0, FALSE>>, <<2, 8, 0, TRUE>>, <<1, 16, 0, TRUE>>,
       <<2, 12, 0, TRUE>>, <<1, 12, 0, TRUE>>, <<1, 8, 0, TRUE>>, <<1, 0, 0, FALSE>>,
       <<1, 0, 0, FALSE>>, <<1, 16, 0, TRUE>>, <<2, 8, 0, TRUE>>, <<1, 16, 0, TRUE>>,
       <<2, 16, 0, TRUE>>, <<1, 4, 0, TRUE>>, <<3, 16, 0, TRUE>>, <<1, 0, 0, FALSE>>,
       <<1, 0, 0, FALSE>>, <<1, 0, 0, FALSE>>, <<2, 8, 0, TRUE>>, <<1, 16, 0, TRUE>>,
       <<2, 12, 0, TRUE>>, <<1, 12, 0, TRUE>>, <<1, 8, 0, TRUE>>, <<1, 4, 0, TRUE>>,
       <<1, 0, 0, FALSE>>, <<1, 16, 0, TRUE>>, <<2, 8, 0, TRUE>>, <<1, 16, 0, TRUE>>,
       <<2, 12, 0, TRUE>>, <<1, 8, 0, TRUE>>, <<3, 16, 0, TRUE>>, <<1, 4, 0, TRUE>>,
       <<1, 0, 0, FALSE>>, <<1, 0, 0, FALSE>>, <<2, 8, 0, TRUE>>, <<1, 16, 0, TRUE>> >>

\* the opcodes MAIN_INSTR_SPECS describes as invalid
InvalidOpcodes ==
    {\hD3, \hDB, \hDD, \hE3, \hE4, \hEB, \hEC, \hED, \hF4, \hFC, \hFD}

InitTable ==
    /\ cpu = CpuDefault
    /\ bus = MemorySystemDefault
    /\ timer = TimerDefault
    /\ ppu = PpuDefault
    /\ machine = MachineDefault
    /\ build = "any"
    /\ ret = NoRet
    /\ last = NoCall
    /\ \E opcode \in 0..255 : ghost = [steps |-> 0, opcode |-> opcode]

\* cpu_decode!(opcode)
TableDecode ==
    /\ ghost.steps = 0
    /\ \E instruction \in {decode(ghost.opcode)} :
          ret' = [kind |-> IF instruction = None THEN "None" ELSE "Some",
                  value |-> instruction]
    /\ last' = [op |-> "decode", opcode |-> ghost.opcode]
    /\ ghost' = [ghost EXCEPT !.steps = 1]
    /\ UNCHANGED <<cpu, bus, timer, ppu, machine, build>>

NextTable == TableDecode

SpecTable == InitTable /\ [][NextTable]_vars

\* the row of MAIN_INSTR_SPECS for the opcode decoded
TableRow == MAIN_INSTR_SPECS[ghost.opcode + 1]

\* C39: an opcode fails to decode exactly when it is one of the eleven illegal opcodes,
\* and every other opcode decodes to the size, cycles and not-taken cycles of the
\* reference table
C39_TableMatchesReference ==
    ghost.steps = 1 =>
        /\ (ret.kind = "None") = (ghost.opcode \in InvalidOpcodes)
        /\ ret.kind = "Some" =>
              /\ ret.value.size = TableRow[1]
              /\ ret.value.cycles = TableRow[2]
              /\ ret.value.cycles_not_taken = TableRow[3]

\* the table and the reference agree on which opcodes are invalid, on every cycle count
\* and on every size but that of STOP (0x10), which the table gives 2 bytes and the
\* reference 1
TableMatchesButStop ==
    ghost.steps = 1 =>
        /\ (ret.kind = "None") = (ghost.opcode \in InvalidOpcodes)
        /\ (ret.kind = "None") = ~TableRow[4]
        /\ ret.kind = "Some" =>
              /\ ret.value.cycles = TableRow[2]
              /\ ret.value.cycles_not_taken = TableRow[3]
              /\ ghost.opcode # \h10 => ret.value.size = TableRow[1]
              /\ ghost.opcode = \h10 => ret.value.size = 2 /\ TableRow[1] = 1

\* STOP decoded with size 2
StopDecodedTwoBytes ==
    /\ ghost.steps = 1 /\ ghost.opcode = \h10
    /\ ret.kind = "Some" /\ ret.value.operation = "STOP" /\ ret.value.size = 2

\* an illegal opcode decoded to None
IllegalDecodedNone ==
    /\ ghost.steps = 1 /\ ghost.opcode = \hD3
    /\ ret.kind = "None"

\* a conditional call decoded with both cycle counts of the reference
CallccDecoded ==
    /\ ghost.steps = 1 /\ ghost.opcode = \hC4
    /\ ret.kind = "Some" /\ ret.value.cycles = 24 /\ ret.value.cycles_not_taken = 12

(***************************************************************************)
(* Cpu::step over programs of EI, DI, RETI, HALT, NOP and stores to IF,    *)
(* with the devices raising interrupts between the steps.                  *)
(***************************************************************************)
\* bound: CPU steps in one behaviour
MaxNestSteps == 5

\* bound: interrupt requests raised by the devices in one behaviour
MaxNestRequests == 2

\* the opcodes an undetermined cell may hold: NOP, HALT, RETI, LDH (n),A, DI, EI
NestOpcodes == {\h00, \h76, \hD9, \hE0, \hF3, \hFB}

\* the sets of interrupts the devices raise
NestMasks == {\h01, \h14}

\* the values the harness writes to IE
NestIEValues == {\h05, \h1F}

InitNest ==
    /\ cpu = CpuDefault
    /\ bus = [MemorySystemDefault EXCEPT !.cartridge = LoadedCartridge([i \in {} |-> 0])]
    /\ timer = TimerDefault
    /\ ppu = PpuDefault
    /\ machine = MachineDefault
    /\ build = "any"
    /\ ret = NoRet
    /\ last = NoCall
    /\ ghost = [steps |-> 0, requests |-> 0, shut |-> FALSE, dispatches |-> 0]

\* Cpu::step(&mut bus); `shut` records a dispatch with no EI or RETI executed since
NestStep ==
    /\ Running
    /\ ghost.steps < MaxNestSteps
    /\ \E opcode \in FetchChoices(bus, cpu.pc, NestOpcodes) :
       \E d1 \in OperandChoices(cpu, bus, opcode, 1) :
       \E b0 \in {with_fetched(cpu, bus, opcode, d1, 0)} :
       \E out \in {cpu_step(cpu, b0)} :
       \E bld \in Builds(out) :
       \E r \in {step_ret(out, bld)} :
          /\ build' = bld
          /\ cpu' = out.cpu
          /\ bus' = out.bus
          /\ ret' = r
          /\ last' = [op |-> "step", cpu |-> cpu, bus |-> b0, irq |-> out.irq,
                      fetched |-> out.fetched,
                      opcode |-> IF out.fetched THEN opcode ELSE -1,
                      shut |-> ghost.shut]
          /\ ghost' = [ghost EXCEPT
                          !.steps = @ + 1,
                          !.dispatches = IF out.irq.ret > 0 THEN @ + 1 ELSE @,
                          !.shut = IF out.irq.ret > 0 THEN TRUE
                                   ELSE IF out.fetched /\ r.kind = "Ok"
                                           /\ opcode \in {\hD9, \hFB} THEN FALSE
                                   ELSE @]
    /\ UNCHANGED <<machine, timer, ppu>>

\* the devices raise interrupts: InterruptBus::set_interrupt_flag
NestRequest ==
    /\ Running
    /\ ghost.requests < MaxNestRequests
    /\ \E mask \in NestMasks :
          /\ BitAnd(interrupt_flag(bus), mask) # mask
          /\ bus' = set_interrupt_flag(bus, mask)
          /\ last' = [op |-> "set_interrupt_flag", mask |-> mask]
    /\ ghost' = [ghost EXCEPT !.requests = @ + 1]
    /\ UNCHANGED <<machine, cpu, timer, ppu, build, ret>>

\* InterruptBus::set_interrupt_enable_u8
NestEnable ==
    /\ ghost.steps = 0
    /\ read_byte(bus, IE_ADDR) = 0
    /\ \E value \in NestIEValues :
          /\ bus' = set_interrupt_enable_u8(bus, value)
          /\ last' = [op |-> "set_interrupt_enable_u8", value |-> value]
    /\ UNCHANGED <<machine, cpu, timer, ppu, build, ret, ghost>>

NextNest == NestStep \/ NestRequest \/ NestEnable

SpecNest == InitNest /\ [][NextNest]_vars

\* the last call was a step that dispatched an interrupt
NestDispatched == last.op = "step" /\ last.irq.ret > 0

\* C40: after a dispatch, ime stays false and no step dispatches until an EI or RETI
\* has been executed, whatever IF and IE hold and whatever the devices raise
C40_NoDispatchUntilEiOrReti ==
    /\ ghost.shut => ~cpu.ime
    /\ NestDispatched => ~last.shut /\ last.cpu.ime

\* C40, its second half: ime changes from false to true only in a step that executes
\* EI or RETI
ImeSetOnlyByEiOrReti ==
    [][(~cpu.ime /\ cpu'.ime) =>
          /\ last'.op = "step"
          /\ last'.fetched
          /\ last'.opcode \in {\hD9, \hFB}]_vars

\* a step after a dispatch, with an interrupt pending and enabled, that executed an
\* instruction other than EI and RETI and left ime false
C40_Witness ==
    /\ last.op = "step" /\ last.shut /\ ghost.shut
    /\ Pending(last.bus) # 0
    /\ last.fetched
    /\ ~cpu.ime

\* a second dispatch, after a RETI
DispatchedAgainAfterReti ==
    /\ NestDispatched
    /\ ghost.dispatches = 2

\* the devices raised an interrupt after a dispatch and the step after it fetched
RaisedWhileShut ==
    /\ last.op = "step" /\ last.shut /\ last.fetched
    /\ ghost.requests = MaxNestRequests
    /\ BitAnd(Pending(last.bus), \h04) # 0

====
